---------------------------- MODULE Spec2Model ----------------------------
(***************************************************************************)
(* A model of the multibagger stock analyser: the Excel data extractor     *)
(* (src/src/multibagger/data_extractor.py) and the part of StockAnalyzer   *)
(* that drives it (src/src/multibagger/stock_analyzer.py).                 *)
(*                                                                         *)
(* Text is modelled as a sequence of one-character strings, so that        *)
(* lower(), strip(), split(), the "in" substring test and the regular      *)
(* expressions of the source are computed character by character.  A cell  *)
(* of a sheet is a record with a kind: a missing value (NaN), a Python     *)
(* int, a Python float (only integral floats are modelled), a text, a      *)
(* date-like value (it has .year and .strftime) or a bare time of day (it  *)
(* has .strftime and no .year).  Floats of the results are modelled by     *)
(* the integers they equal.                                                *)
(***************************************************************************)
EXTENDS Integers, Sequences, FiniteSets, TLC

(***************************************************************************)
(* Evaluation helpers.  The({F(x) : x \in {e}}) is F(e) with e evaluated   *)
(* once: a bound variable holds a value, a LET name or a parameter an       *)
(* expression, which is computed again wherever it is used.                *)
(***************************************************************************)
\* the element of a set of one element
The(S) == CHOOSE x \in S : TRUE

\* the least number of a set of positive numbers, 0 for the empty set: the
\* first hit of a loop that returns at its first hit, None if it has none
FirstOf(S) ==
  The({IF T = {} THEN 0 ELSE CHOOSE i \in T : \A j \in T : i <= j : T \in {S}})

(***************************************************************************)
(* Text primitives (Python str methods used by the source)                 *)
(***************************************************************************)
UpperAlpha ==
  <<"A","B","C","D","E","F","G","H","I","J","K","L","M",
    "N","O","P","Q","R","S","T","U","V","W","X","Y","Z">>

LowerAlpha ==
  <<"a","b","c","d","e","f","g","h","i","j","k","l","m",
    "n","o","p","q","r","s","t","u","v","w","x","y","z">>

DigitChars == <<"0","1","2","3","4","5","6","7","8","9">>

\* the lower-case letter of each upper-case letter
ToLower ==
  [c \in {UpperAlpha[i] : i \in 1..26} |-> LowerAlpha[CHOOSE i \in 1..26 : UpperAlpha[i] = c]]

\* the upper-case letter of each lower-case letter
ToUpper ==
  [c \in {LowerAlpha[i] : i \in 1..26} |-> UpperAlpha[CHOOSE i \in 1..26 : LowerAlpha[i] = c]]

\* the value of each digit character
DigitValues ==
  [c \in {DigitChars[i] : i \in 1..10} |-> (CHOOSE i \in 1..10 : DigitChars[i] = c) - 1]

IsUpperChar(c) == c \in DOMAIN ToLower

IsLowerChar(c) == c \in DOMAIN ToUpper

IsDigitChar(c) == c \in DOMAIN DigitValues

\* the value of a digit character
DigitVal(c) == DigitValues[c]

\* a character the regular expression class \w matches
IsWordChar(c) == IsUpperChar(c) \/ IsLowerChar(c) \/ IsDigitChar(c) \/ c = "_"

LowerChar(c) == IF IsUpperChar(c) THEN ToLower[c] ELSE c

UpperChar(c) == IF IsLowerChar(c) THEN ToUpper[c] ELSE c

\* str.lower()
Lower(s) == The({[i \in 1..Len(t) |-> LowerChar(t[i])] : t \in {s}})

\* str.upper()
Upper(s) == The({[i \in 1..Len(t) |-> UpperChar(t[i])] : t \in {s}})

IsSpaceChar(c) == c = " "

\* str.strip(): leading and trailing whitespace removed
Strip(s) ==
  The({IF \A i \in 1..Len(t) : IsSpaceChar(t[i]) THEN <<>>
       ELSE SubSeq(t,
                   CHOOSE i \in 1..Len(t) :
                      ~IsSpaceChar(t[i]) /\ \A j \in 1..(i - 1) : IsSpaceChar(t[j]),
                   CHOOSE i \in 1..Len(t) :
                      ~IsSpaceChar(t[i]) /\ \A j \in (i + 1)..Len(t) : IsSpaceChar(t[j])) :
       t \in {s}})

\* a in b, for Python strings
IsSubstr(a, b) ==
  \E x \in {a}, y \in {b} :
     \E off \in 0..(Len(y) - Len(x)) : \A j \in 1..Len(x) : y[off + j] = x[j]

\* str.startswith
StartsWith(s, p) ==
  \E t \in {s} : Len(p) <= Len(t) /\ \A j \in 1..Len(p) : t[j] = p[j]

\* str.replace('-', ' ')
ReplaceHyphen(s) ==
  The({[i \in 1..Len(t) |-> IF t[i] = "-" THEN " " ELSE t[i]] : t \in {s}})

\* set(str.split()): the maximal runs of non-whitespace characters
SplitWords(s) ==
  The({ {SubSeq(t, i, CHOOSE e \in i..Len(t) :
                        /\ \A j \in i..e : ~IsSpaceChar(t[j])
                        /\ (e = Len(t) \/ IsSpaceChar(t[e+1]))) :
           i \in {i \in 1..Len(t) : ~IsSpaceChar(t[i]) /\ (i = 1 \/ IsSpaceChar(t[i-1]))}} :
        t \in {s} })

RECURSIVE DigitsOf(_)
\* str(n) for an int n >= 0
DigitsOf(n) ==
  IF n < 10 THEN <<DigitChars[n + 1]>>
  ELSE Append(DigitsOf(n \div 10), DigitChars[(n % 10) + 1])

\* str(n) for any int
IntStr(n) == IF n < 0 THEN <<"-">> \o DigitsOf(-n) ELSE DigitsOf(n)

RECURSIVE DigitsValueUpTo(_, _)
\* int(s[:n]) for a text of digits
DigitsValueUpTo(s, n) ==
  IF n = 0 THEN 0
  ELSE 10 * DigitsValueUpTo(s, n - 1) + DigitVal(s[n])

\* int(s) for a text of digits
DigitsValue(s) == The({DigitsValueUpTo(t, Len(t)) : t \in {s}})

\* f"{n:0wd}" for n >= 0
ZeroPad(n, w) ==
  The({[i \in 1..(IF Len(d) < w THEN w - Len(d) ELSE 0) |-> "0"] \o d : d \in {DigitsOf(n)}})

(***************************************************************************)
(* Keyword and synonym tables of the source                                *)
(***************************************************************************)
PL_KEYWORDS ==
  << <<"p","r","o","f","i","t">>,
     <<"p","&","l">>,
     <<"p","l">>,
     <<"i","n","c","o","m","e">> >>

BS_KEYWORDS ==
  << <<"b","a","l","a","n","c","e">>,
     <<"b","s">>,
     <<"b","a","l","a","n","c","e"," ","s","h","e","e","t">> >>

CF_KEYWORDS ==
  << <<"c","a","s","h"," ","f","l","o","w">>,
     <<"c","f">>,
     <<"c","a","s","h","f","l","o","w">> >>

Q_KEYWORDS ==
  << <<"q","u","a","r","t","e","r","s">>,
     <<"q","u","a","r","t","e","r","l","y">>,
     <<"q">> >>

DATA_KEYWORDS ==
  << <<"d","a","t","a">>,
     <<"c","o","m","p","a","n","y">>,
     <<"i","n","f","o">>,
     <<"s","u","m","m","a","r","y">> >>

PL_METRICS ==
  << [key |-> "sales", terms |-> <<
        <<"s","a","l","e","s">>,
        <<"r","e","v","e","n","u","e">>,
        <<"t","o","t","a","l"," ","r","e","v","e","n","u","e">>,
        <<"n","e","t"," ","s","a","l","e","s">> >>],
     [key |-> "operating_profit", terms |-> <<
        <<"o","p","e","r","a","t","i","n","g"," ","p","r","o","f","i","t">>,
        <<"e","b","i","t">>,
        <<"o","p","e","r","a","t","i","n","g"," ","i","n","c","o","m","e">> >>],
     [key |-> "net_profit", terms |-> <<
        <<"n","e","t"," ","p","r","o","f","i","t">>,
        <<"n","e","t"," ","i","n","c","o","m","e">>,
        <<"p","r","o","f","i","t"," ","a","f","t","e","r"," ","t","a","x">>,
        <<"p","a","t">> >>],
     [key |-> "eps", terms |-> <<
        <<"e","p","s">>,
        <<"e","a","r","n","i","n","g","s"," ","p","e","r"," ","s","h","a","r","e">> >>],
     [key |-> "dividend", terms |-> <<
        <<"d","i","v","i","d","e","n","d">>,
        <<"d","i","v","i","d","e","n","d"," ","p","e","r"," ","s","h","a","r","e">>,
        <<"d","p","s">> >>] >>

BS_METRICS ==
  << [key |-> "total_equity", terms |-> <<
        <<"t","o","t","a","l"," ","e","q","u","i","t","y">>,
        <<"s","h","a","r","e","h","o","l","d","e","r","s"," ","e","q","u","i","t","y">>,
        <<"e","q","u","i","t","y">>,
        <<"e","q","u","i","t","y"," ","s","h","a","r","e"," ","c","a","p","i","t","a","l">> >>],
     [key |-> "total_debt", terms |-> <<
        <<"t","o","t","a","l"," ","d","e","b","t">>,
        <<"t","o","t","a","l"," ","b","o","r","r","o","w","i","n","g","s">>,
        <<"d","e","b","t">>,
        <<"b","o","r","r","o","w","i","n","g","s">> >>],
     [key |-> "current_assets", terms |-> <<
        <<"c","u","r","r","e","n","t"," ","a","s","s","e","t","s">>,
        <<"c","u","r","r","e","n","t"," ","a","s","s","e","t">>,
        <<"w","o","r","k","i","n","g"," ","c","a","p","i","t","a","l">>,
        <<"d","e","b","t","o","r","s">>,
        <<"i","n","v","e","n","t","o","r","y">> >>],
     [key |-> "current_liabilities", terms |-> <<
        <<"c","u","r","r","e","n","t"," ","l","i","a","b","i","l","i","t","i","e","s">>,
        <<"c","u","r","r","e","n","t"," ","l","i","a","b","i","l","i","t","y">>,
        <<"o","t","h","e","r"," ","l","i","a","b","i","l","i","t","i","e","s">> >>],
     [key |-> "fixed_assets", terms |-> <<
        <<"f","i","x","e","d"," ","a","s","s","e","t","s">>,
        <<"p","r","o","p","e","r","t","y"," ","p","l","a","n","t"," ","e","q","u","i","p","m","e","n","t">>,
        <<"p","p","e">>,
        <<"n","e","t"," ","b","l","o","c","k">>,
        <<"g","r","o","s","s"," ","b","l","o","c","k">>,
        <<"c","a","p","i","t","a","l"," ","w","o","r","k"," ","i","n"," ","p","r","o","g","r","e","s","s">> >>],
     [key |-> "total_assets", terms |-> <<
        <<"t","o","t","a","l"," ","a","s","s","e","t","s">> >>] >>

CF_METRICS ==
  << [key |-> "operating_cash_flow", terms |-> <<
        <<"o","p","e","r","a","t","i","n","g"," ","c","a","s","h"," ","f","l","o","w">>,
        <<"c","a","s","h"," ","f","r","o","m"," ","o","p","e","r","a","t","i","o","n","s">>,
        <<"o","c","f">>,
        <<"c","a","s","h"," ","f","r","o","m"," ","o","p","e","r","a","t","i","n","g"," ","a","c","t","i","v","i","t","y">>,
        <<"o","p","e","r","a","t","i","n","g"," ","a","c","t","i","v","i","t","y">> >>],
     [key |-> "capex", terms |-> <<
        <<"c","a","p","e","x">>,
        <<"c","a","p","i","t","a","l"," ","e","x","p","e","n","d","i","t","u","r","e">>,
        <<"i","n","v","e","s","t","m","e","n","t","s">>,
        <<"c","a","s","h"," ","f","r","o","m"," ","i","n","v","e","s","t","i","n","g"," ","a","c","t","i","v","i","t","y">>,
        <<"i","n","v","e","s","t","i","n","g"," ","a","c","t","i","v","i","t","y">>,
        <<"c","a","p","i","t","a","l"," ","e","x","p","e","n","d","i","t","u","r","e","s">> >>],
     [key |-> "financing_cash_flow", terms |-> <<
        <<"f","i","n","a","n","c","i","n","g"," ","c","a","s","h"," ","f","l","o","w">>,
        <<"c","a","s","h"," ","f","r","o","m"," ","f","i","n","a","n","c","i","n","g">>,
        <<"c","a","s","h"," ","f","r","o","m"," ","f","i","n","a","n","c","i","n","g"," ","a","c","t","i","v","i","t","y">>,
        <<"f","i","n","a","n","c","i","n","g"," ","a","c","t","i","v","i","t","y">> >>] >>

Q_METRICS ==
  << [key |-> "revenue", terms |-> <<
        <<"s","a","l","e","s">>,
        <<"r","e","v","e","n","u","e">>,
        <<"t","o","t","a","l"," ","r","e","v","e","n","u","e">> >>],
     [key |-> "net_profit", terms |-> <<
        <<"n","e","t"," ","p","r","o","f","i","t">>,
        <<"n","e","t"," ","i","n","c","o","m","e">>,
        <<"p","r","o","f","i","t"," ","a","f","t","e","r"," ","t","a","x">> >>] >>

COMPANY_FIELDS ==
  << [key |-> "current_price", terms |-> <<
        <<"p","r","i","c","e">>,
        <<"c","u","r","r","e","n","t"," ","p","r","i","c","e">>,
        <<"s","h","a","r","e"," ","p","r","i","c","e">>,
        <<"c","m","p">> >>],
     [key |-> "market_cap", terms |-> <<
        <<"m","a","r","k","e","t"," ","c","a","p">>,
        <<"m","a","r","k","e","t"," ","c","a","p","i","t","a","l","i","z","a","t","i","o","n">>,
        <<"m","c","a","p">> >>],
     [key |-> "face_value", terms |-> <<
        <<"f","a","c","e"," ","v","a","l","u","e">>,
        <<"f","v">>,
        <<"p","a","r"," ","v","a","l","u","e">> >>],
     [key |-> "outstanding_shares", terms |-> <<
        <<"s","h","a","r","e","s">>,
        <<"o","u","t","s","t","a","n","d","i","n","g"," ","s","h","a","r","e","s">>,
        <<"s","h","a","r","e","s"," ","o","u","t","s","t","a","n","d","i","n","g">>,
        <<"n","u","m","b","e","r"," ","o","f"," ","s","h","a","r","e","s">> >>] >>

FILLER_WORDS ==
  << <<"f","r","o","m">>,
     <<"t","o">>,
     <<"t","h","e">>,
     <<"a","n","d">>,
     <<"o","r">>,
     <<"o","f">>,
     <<"i","n">>,
     <<"f","o","r">>,
     <<"w","i","t","h">>,
     <<"t","o","t","a","l">> >>

NAME_MARKERS ==
  << <<"L","T","D">>,
     <<"L","I","M","I","T","E","D">>,
     <<"I","N","C">>,
     <<"C","O","R","P">>,
     <<"C","O","M","P","A","N","Y">>,
     <<"I","N","F","O","R","M","A","T","I","C","S">> >>

UNNAMED_PREFIX == <<"U","n","n","a","m","e","d",":">>
SCREENER_IN == <<"S","C","R","E","E","N","E","R",".","I","N">>
NARRATION == <<"N","a","r","r","a","t","i","o","n">>
CUSTOM == <<"c","u","s","t","o","m">>
UNKNOWN_COMPANY == <<"U","n","k","n","o","w","n"," ","C","o","m","p","a","n","y">>

(***************************************************************************)
(* Cells of a sheet                                                        *)
(***************************************************************************)
\* a missing value (NaN, None, NaT)
NaN == [k |-> "nan", v |-> 0, mo |-> 0, d |-> 0, s |-> <<>>]

\* a Python int
PyInt(n) == [k |-> "int", v |-> n, mo |-> 0, d |-> 0, s |-> <<>>]

\* a Python float (an integral one)
PyFloat(n) == [k |-> "float", v |-> n, mo |-> 0, d |-> 0, s |-> <<>>]

\* a text
Str(t) == [k |-> "str", v |-> 0, mo |-> 0, d |-> 0, s |-> t]

\* a date-like value (datetime.datetime, pd.Timestamp) at midnight
Date(y, m, dd) == [k |-> "date", v |-> y, mo |-> m, d |-> dd, s |-> <<>>]

\* a bare time of day (datetime.time): it has strftime and no year
TimeOfDay == [k |-> "time", v |-> 0, mo |-> 0, d |-> 0, s |-> <<>>]

\* pd.notna(cell)
NotNa(cell) == cell.k # "nan"

\* hasattr(cell, 'year')
HasYear(cell) == cell.k = "date"

\* hasattr(cell, 'strftime')
HasStrftime(cell) == cell.k \in {"date", "time"}

\* isinstance(cell, (int, float))
IsIntOrFloat(cell) == cell.k \in {"int", "float"}

\* cell.strftime('%Y-%m-%d') of a date-like value
StrftimeYmd(cell) ==
  ZeroPad(cell.v, 4) \o <<"-">> \o ZeroPad(cell.mo, 2) \o <<"-">> \o ZeroPad(cell.d, 2)

\* str(cell)
StrOf(cell) ==
  CASE cell.k = "str"   -> cell.s
    [] cell.k = "int"   -> IntStr(cell.v)
    [] cell.k = "float" -> IntStr(cell.v) \o <<".", "0">>
    [] cell.k = "date"  -> StrftimeYmd(cell) \o <<" ","0","0",":","0","0",":","0","0">>
    [] cell.k = "time"  -> <<"0","0",":","0","0",":","0","0">>
    [] OTHER            -> <<"n","a","n">>

\* float(cell) succeeds: a number, or a text that is digits once stripped
\* (a date-like value is a TypeError, any other text of the model a ValueError)
FloatParses(cell) ==
  \/ IsIntOrFloat(cell)
  \/ /\ cell.k = "str"
     /\ \E t \in {Strip(cell.s)} : t # <<>> /\ \A i \in 1..Len(t) : IsDigitChar(t[i])

\* float(cell) where it succeeds
FloatOf(cell) == IF cell.k = "str" THEN DigitsValue(Strip(cell.s)) ELSE cell.v

(***************************************************************************)
(* Program constants                                                       *)
(***************************************************************************)
MIN_YEAR == 1990

MAX_YEAR == 2030

MIN_YEAR_CELLS == 3

MIN_QUARTER_CELLS == 4

MAX_SCAN_CELLS == 5

MIN_NAME_LEN == 5

PLACEHOLDER_BASE_YEAR == 2020

MIN_DATE_YEAR == 1900

(***************************************************************************)
(* Year and quarter patterns                                               *)
(***************************************************************************)
\* the offsets at which r'\b(19|20)\d{2}\b' matches in s
YearMatches(s) ==
  The({ {i \in 1..(Len(t) - 3) :
           /\ \/ (t[i] = "1" /\ t[i+1] = "9")
              \/ (t[i] = "2" /\ t[i+1] = "0")
           /\ IsDigitChar(t[i+2])
           /\ IsDigitChar(t[i+3])
           /\ (i = 1 \/ ~IsWordChar(t[i-1]))
           /\ (i + 3 = Len(t) \/ ~IsWordChar(t[i+4]))} :
        t \in {s} })

\* re.search(r'\b(19|20)\d{2}\b', s) finds a match
YearSearch(s) == YearMatches(s) # {}

\* int(year_match.group(0)): the leftmost match
YearGroup(s) ==
  The({DigitsValue(SubSeq(t, i, i + 3)) : t \in {s}, i \in {FirstOf(YearMatches(s))}})

\* re.search(r'Q[1-4]', s)
QuarterSearch(s) ==
  \E t \in {s} : \E i \in 1..(Len(t) - 1) : t[i] = "Q" /\ t[i+1] \in {"1", "2", "3", "4"}

\* the quarter test of a cell that has no strftime, on str(cell).upper()
QuarterText(u) ==
  \/ QuarterSearch(u)
  \/ IsSubstr(<<"M","A","R">>, u)
  \/ IsSubstr(<<"J","U","N">>, u)
  \/ IsSubstr(<<"S","E","P">>, u)
  \/ IsSubstr(<<"D","E","C">>, u)

(***************************************************************************)
(* ExcelDataExtractor: the pure parts.  A sheet (a DataFrame) is a record  *)
(* [name, columns, rows]; rows are numbered from 1 (the source numbers     *)
(* them from 0) and NoRow stands for None.                                 *)
(***************************************************************************)
NoRow == 0

NoSheet == 0

\* the sequence as a set
Range(s) == {s[i] : i \in 1..Len(s)}

\* the cell counts as a year in find_year_row
YearLikeCell(cell) ==
  /\ NotNa(cell)
  /\ IF HasYear(cell)
     THEN MIN_YEAR <= cell.v /\ cell.v <= MAX_YEAR
     ELSE cell.k \in {"int", "float", "str"} /\ YearSearch(StrOf(cell))

\* year_count of one row in find_year_row
YearCount(row) == Cardinality({i \in 1..Len(row) : YearLikeCell(row[i])})

\* a variant of find_year_row that keeps the last row meeting the threshold
find_year_row_bottommost(rows) ==
  The({IF S = {} THEN NoRow ELSE CHOOSE i \in S : \A j \in S : j <= i :
       S \in {{i \in 1..Len(rows) : YearCount(rows[i]) >= MIN_YEAR_CELLS}}})

find_year_row(rows) ==
  FirstOf({i \in 1..Len(rows) : YearCount(rows[i]) >= MIN_YEAR_CELLS})

\* the year the cell has for extract_years, before the range test; 0: none
CellYear(cell) ==
  IF ~NotNa(cell) THEN 0
  ELSE IF HasYear(cell) THEN cell.v
  ELSE The({IF YearSearch(t) THEN YearGroup(t) ELSE 0 : t \in {StrOf(cell)}})

\* a variant of AcceptedYearCell without the range test of lines 114 and 122
AcceptedYearCellAnyYear(cell) == CellYear(cell) # 0

\* the cell appends a year in extract_years
AcceptedYearCell(cell) ==
  \E year \in {CellYear(cell)} : year # 0 /\ MIN_YEAR <= year /\ year <= MAX_YEAR

\* sorted(s): the element at place p is the one with p - 1 elements before it
SortedSeq(s) ==
  The({[p \in 1..Len(t) |->
          t[CHOOSE i \in 1..Len(t) :
              Cardinality({j \in 1..Len(t) : t[j] < t[i] \/ (t[j] = t[i] /\ j < i)}) = p - 1]] :
       t \in {s}})

RECURSIVE YearsUpTo(_, _)
\* the list years of extract_years after the first n cells of the row
YearsUpTo(row, n) ==
  IF n = 0 THEN <<>>
  ELSE IF AcceptedYearCell(row[n])
       THEN Append(YearsUpTo(row, n - 1), CellYear(row[n]))
       ELSE YearsUpTo(row, n - 1)

\* a variant of extract_years returning sorted(set(years))
extract_years_distinct(year_row) ==
  The({[p \in 1..Cardinality(S) |-> CHOOSE y \in S : Cardinality({z \in S : z < y}) = p - 1] :
       S \in {Range(YearsUpTo(year_row, Len(year_row)))}})

extract_years(year_row) ==
  SortedSeq(The({YearsUpTo(row, Len(row)) : row \in {year_row}}))

\* the filler words of find_row_by_label, as a set
FILLER_SET == Range(FILLER_WORDS)

\* the words of a text that are not filler words
KeyWords(text) == SplitWords(ReplaceHyphen(text)) \ FILLER_SET

Min2(a, b) == IF a < b THEN a ELSE b

\* a variant of WordsMatch that is content with one shared word
WordsMatchOneShared(label_words, cell_words) ==
  /\ label_words # {}
  /\ cell_words # {}
  /\ Cardinality(label_words \cap cell_words) >= 1

\* the fuzzy test of find_row_by_label on the two sets of words
WordsMatch(label_words, cell_words) ==
  /\ label_words # {}
  /\ cell_words # {}
  /\ Cardinality(label_words \cap cell_words) >= Min2(Cardinality(label_words), 2)

\* one row's first cell matches the label in find_row_by_label
LabelMatches(cell_str, label_lower) ==
  \/ label_lower = cell_str
  \/ IsSubstr(label_lower, cell_str)
  \/ IsSubstr(cell_str, label_lower)
  \/ \E label_words \in {KeyWords(label_lower)}, cell_words \in {KeyWords(cell_str)} :
        WordsMatch(label_words, cell_words)

\* a variant of find_row_by_label that does not lower-case the cell text
find_row_by_label_case_sensitive(rows, label) ==
  FirstOf(The({ {i \in 1..Len(rows) :
                   /\ Len(rows[i]) > 0
                   /\ NotNa(rows[i][1])
                   /\ \E cell_str \in {Strip(StrOf(rows[i][1]))} :
                         LabelMatches(cell_str, label_lower)} :
                label_lower \in {Strip(Lower(label))} }))

find_row_by_label(rows, label) ==
  FirstOf(The({ {i \in 1..Len(rows) :
                   /\ Len(rows[i]) > 0
                   /\ NotNa(rows[i][1])
                   /\ \E cell_str \in {Strip(Lower(StrOf(rows[i][1])))} :
                         LabelMatches(cell_str, label_lower)} :
                label_lower \in {Strip(Lower(label))} }))

\* a variant of NumericAt that reads cell i instead of cell i + 1
NumericAtLabelColumn(row, i) ==
  IF i <= Len(row)
  THEN IF NotNa(row[i]) /\ IsIntOrFloat(row[i]) THEN row[i].v ELSE 0
  ELSE 0

\* the value extract_numeric_values stores for position i (from 1) of years
NumericAt(row, i) ==
  IF i + 1 <= Len(row)
  THEN IF NotNa(row[i + 1]) /\ IsIntOrFloat(row[i + 1]) THEN row[i + 1].v ELSE 0
  ELSE 0

RECURSIVE ValuesUpTo(_, _, _)
\* the dict values after the first n years were assigned, in order
ValuesUpTo(row, years, n) ==
  IF n = 0 THEN <<>>
  ELSE (years[n] :> NumericAt(row, n)) @@ ValuesUpTo(row, years, n - 1)

extract_numeric_values(row, years) == ValuesUpTo(row, years, Len(years))

\* a variant of ZeroSeries that leaves the first year out
ZeroSeriesShort(years) ==
  [y \in Range(years) \ (IF years = <<>> THEN {} ELSE {years[1]}) |-> 0]

\* {year: 0.0 for year in years}
ZeroSeries(years) == [y \in Range(years) |-> 0]

\* a variant of _find_sheet_by_name whose outer loop is over the keywords
find_sheet_keyword_first(sheets, keywords) ==
  The({IF k = 0 THEN NoSheet
       ELSE FirstOf({i \in 1..Len(sheets) : IsSubstr(Lower(keywords[k]), Lower(sheets[i].name))}) :
       k \in {FirstOf({n \in 1..Len(keywords) :
                         \E i \in 1..Len(sheets) :
                            IsSubstr(Lower(keywords[n]), Lower(sheets[i].name))})}})

\* the sheet (its place in the workbook stands for its name; NoSheet: None)
_find_sheet_by_name(sheets, keywords) ==
  FirstOf({i \in 1..Len(sheets) :
             \E sheet_name_lower \in {Lower(sheets[i].name)} :
                \E k \in 1..Len(keywords) : IsSubstr(Lower(keywords[k]), sheet_name_lower)})

(***************************************************************************)
(* ExcelDataExtractor: the handlers.  A handler's value is a record:       *)
(* result is the dict it returns, matched maps each metric to the row it   *)
(* took its values from (NoRow: none) and used lists used_rows after each  *)
(* metric of the loop.                                                     *)
(***************************************************************************)
RECURSIVE TermSearch(_, _, _, _, _)
\* the loop over search_terms from term i on: the first row found that the
\* loop accepts (with track, a row not in used_rows), NoRow when it ends
TermSearch(rows, terms, i, used_rows, track) ==
  IF i > Len(terms) THEN NoRow
  ELSE The({IF row_idx # NoRow /\ (track => row_idx \notin used_rows)
            THEN row_idx
            ELSE TermSearch(rows, terms, i + 1, used_rows, track) :
            row_idx \in {find_row_by_label(rows, terms[i])}})

\* a variant of MetricStep that tries the search terms from the last one
MetricStepLastTermFirst(rows, years, metric, track, acc) ==
  The({[extracted |-> (metric.key :> (IF row_idx # NoRow
                                      THEN extract_numeric_values(rows[row_idx], years)
                                      ELSE ZeroSeries(years))) @@ acc.extracted,
        matched   |-> (metric.key :> row_idx) @@ acc.matched,
        used_rows |-> IF track /\ row_idx # NoRow
                      THEN acc.used_rows \cup {row_idx} ELSE acc.used_rows,
        used      |-> Append(acc.used, IF track /\ row_idx # NoRow
                                       THEN acc.used_rows \cup {row_idx}
                                       ELSE acc.used_rows)] :
       row_idx \in {TermSearch(rows,
                               [t \in 1..Len(metric.terms) |->
                                  metric.terms[Len(metric.terms) + 1 - t]],
                               1, acc.used_rows, track)}})

\* one round of the loop over metrics.items(): acc holds extracted, the rows
\* matched so far, used_rows and its history
MetricStep(rows, years, metric, track, acc) ==
  The({[extracted |-> (metric.key :> (IF row_idx # NoRow
                                      THEN extract_numeric_values(rows[row_idx], years)
                                      ELSE ZeroSeries(years))) @@ acc.extracted,
        matched   |-> (metric.key :> row_idx) @@ acc.matched,
        used_rows |-> IF track /\ row_idx # NoRow
                      THEN acc.used_rows \cup {row_idx} ELSE acc.used_rows,
        used      |-> Append(acc.used, IF track /\ row_idx # NoRow
                                       THEN acc.used_rows \cup {row_idx}
                                       ELSE acc.used_rows)] :
       row_idx \in {TermSearch(rows, metric.terms, 1, acc.used_rows, track)}})

RECURSIVE MetricLoop(_, _, _, _, _, _)
\* the loop over metrics.items() from metric m on
MetricLoop(rows, years, metrics, track, m, acc) ==
  IF m > Len(metrics) THEN acc
  ELSE MetricLoop(rows, years, metrics, track, m + 1,
                  The({MetricStep(rows, years, metrics[m], track, a) : a \in {acc}}))

\* a pass that returned {} before its loop
NoPass == [extracted |-> <<>>, matched |-> <<>>, used_rows |-> {}, used |-> <<>>]

\* an annual handler once its sheet is found: the year row, the years,
\* extracted = {'years': years} and the loop over the metrics
AnnualPass(sheet_data, metrics, track) ==
  The({ The({IF year_row_idx = NoRow THEN NoPass
             ELSE The({MetricLoop(rows, years, metrics, track, 1,
                                  [extracted |-> ("years" :> years), matched |-> <<>>,
                                   used_rows |-> {}, used |-> <<>>]) :
                       years \in {extract_years(rows[year_row_idx])}}) :
             year_row_idx \in {find_year_row(rows)}}) :
        rows \in {sheet_data.rows} })

\* a variant of EmptyResult: a skeleton with an empty axis instead of {}
EmptySkeleton == [result |-> ("years" :> <<>>), matched |-> <<>>, used |-> <<>>]

\* a handler returning {}
EmptyResult == [result |-> <<>>, matched |-> <<>>, used |-> <<>>]

extract_from_profit_loss_sheet(sheets) ==
  The({IF sheet_name = NoSheet THEN EmptyResult
       ELSE The({[result |-> pass.extracted, matched |-> pass.matched, used |-> pass.used] :
                 pass \in {AnnualPass(sheets[sheet_name], PL_METRICS, FALSE)}}) :
       sheet_name \in {_find_sheet_by_name(sheets, PL_KEYWORDS)}})

\* a variant of CalculatedTotalAssets: the larger sum, whatever its sign
CalculatedLargerSum(extracted, year) ==
  The({IF method2 > method1 THEN method2 ELSE method1 :
       method1 \in {extracted["current_assets"][year] + extracted["fixed_assets"][year]},
       method2 \in {extracted["total_debt"][year] + extracted["total_equity"][year]}})

\* calculated_total_assets[year] of extract_from_balance_sheet
CalculatedTotalAssets(extracted, year) ==
  \* method1: current + fixed assets, method2: debt + equity
  The({IF method2 > 0 /\ method2 > method1 THEN method2
       ELSE IF method1 > 0 THEN method1
       ELSE 0 :
       method1 \in {extracted["current_assets"][year] + extracted["fixed_assets"][year]},
       method2 \in {extracted["total_debt"][year] + extracted["total_equity"][year]}})

\* extracted once total_assets was calculated where it was all zero
WithTotalAssets(extracted) ==
  IF extracted = <<>> THEN extracted
  ELSE The({IF /\ \A y \in DOMAIN calculated : extracted["total_assets"][y] = 0
               /\ \E y \in DOMAIN calculated : calculated[y] > 0
            THEN ("total_assets" :> calculated) @@ extracted
            ELSE extracted :
            calculated \in {[y \in Range(extracted["years"]) |->
                               CalculatedTotalAssets(extracted, y)]}})

extract_from_balance_sheet(sheets) ==
  The({IF sheet_name = NoSheet THEN EmptyResult
       ELSE The({[result |-> WithTotalAssets(pass.extracted),
                  matched |-> pass.matched, used |-> pass.used] :
                 pass \in {AnnualPass(sheets[sheet_name], BS_METRICS, TRUE)}}) :
       sheet_name \in {_find_sheet_by_name(sheets, BS_KEYWORDS)}})

Abs(x) == IF x < 0 THEN -x ELSE x

\* a variant of WithFreeCashFlow that adds capex as stored
WithFreeCashFlowSigned(extracted) ==
  IF extracted = <<>> THEN extracted
  ELSE ("free_cash_flow" :>
          [y \in Range(extracted["years"]) |->
             extracted["operating_cash_flow"][y] + extracted["capex"][y]])
       @@ extracted

\* extracted with free_cash_flow
WithFreeCashFlow(extracted) ==
  IF extracted = <<>> THEN extracted
  ELSE ("free_cash_flow" :>
          [y \in Range(extracted["years"]) |->
             extracted["operating_cash_flow"][y] - Abs(extracted["capex"][y])])
       @@ extracted

\* a variant of extract_from_cash_flow_sheet whose used_rows starts from the
\* rows another pass left in it
cash_flow_sharing_used_rows(sheets, used_rows) ==
  The({IF sheet_name = NoSheet THEN EmptyResult
       ELSE The({ The({IF year_row_idx = NoRow THEN EmptyResult
                       ELSE The({[result |-> WithFreeCashFlow(pass.extracted),
                                  matched |-> pass.matched, used |-> pass.used] :
                                 pass \in {MetricLoop(rows, extract_years(rows[year_row_idx]),
                                              CF_METRICS, TRUE, 1,
                                              [extracted |-> ("years" :> extract_years(rows[year_row_idx])),
                                               matched |-> <<>>, used_rows |-> used_rows,
                                               used |-> <<>>])}}) :
                       year_row_idx \in {find_year_row(rows)}}) :
                 rows \in {sheets[sheet_name].rows}}) :
       sheet_name \in {_find_sheet_by_name(sheets, CF_KEYWORDS)}})

\* a variant of extract_from_cash_flow_sheet that keeps no used_rows
cash_flow_without_used_rows(sheets) ==
  The({IF sheet_name = NoSheet THEN EmptyResult
       ELSE The({[result |-> WithFreeCashFlow(pass.extracted),
                  matched |-> pass.matched, used |-> pass.used] :
                 pass \in {AnnualPass(sheets[sheet_name], CF_METRICS, FALSE)}}) :
       sheet_name \in {_find_sheet_by_name(sheets, CF_KEYWORDS)}})

\* what the validation of lines 397-410 logs: an error when the values of
\* operating_cash_flow and capex are identical, the counts otherwise
CashFlowValidation(extracted) ==
  IF extracted = <<>> THEN "none"
  ELSE IF extracted["operating_cash_flow"] = extracted["capex"] THEN "error"
  ELSE "info"

\* a variant of extract_from_cash_flow_sheet that gives up on identical values
cash_flow_rejecting_collision(sheets) ==
  The({IF sheet_name = NoSheet THEN EmptyResult
       ELSE The({IF CashFlowValidation(pass.extracted) = "error" THEN EmptyResult
                 ELSE [result |-> WithFreeCashFlow(pass.extracted),
                       matched |-> pass.matched, used |-> pass.used,
                       log |-> CashFlowValidation(pass.extracted)] :
                 pass \in {AnnualPass(sheets[sheet_name], CF_METRICS, TRUE)}}) :
       sheet_name \in {_find_sheet_by_name(sheets, CF_KEYWORDS)}})

extract_from_cash_flow_sheet(sheets) ==
  The({IF sheet_name = NoSheet THEN EmptyResult
       ELSE The({[result |-> WithFreeCashFlow(pass.extracted),
                  matched |-> pass.matched, used |-> pass.used,
                  log |-> CashFlowValidation(WithFreeCashFlow(pass.extracted))] :
                 pass \in {AnnualPass(sheets[sheet_name], CF_METRICS, TRUE)}}) :
       sheet_name \in {_find_sheet_by_name(sheets, CF_KEYWORDS)}})

\* the placeholder date of a time-only cell, n quarters being listed already
PlaceholderDate(n) ==
  ZeroPad(PLACEHOLDER_BASE_YEAR + (n \div 4), 4) \o
  (CASE n % 4 = 0 -> <<"-","0","3","-","3","1">>
     [] n % 4 = 1 -> <<"-","0","6","-","3","0">>
     [] n % 4 = 2 -> <<"-","0","9","-","3","0">>
     [] OTHER     -> <<"-","1","2","-","3","1">>)

\* what one cell appends to row_quarters, which holds n entries; <<>>: nothing
QuarterOf(cell, n) ==
  IF ~NotNa(cell) THEN <<>>
  ELSE IF HasStrftime(cell)
  THEN IF HasYear(cell) /\ cell.v > MIN_DATE_YEAR
       THEN <<StrftimeYmd(cell)>>
       ELSE <<PlaceholderDate(n)>>
  ELSE The({IF QuarterText(cell_str) THEN <<cell_str>> ELSE <<>> :
            cell_str \in {Upper(StrOf(cell))}})

RECURSIVE QuartersUpTo(_, _)
\* row_quarters after the first n cells of the row
QuartersUpTo(row, n) ==
  IF n = 0 THEN <<>>
  ELSE The({row_quarters \o QuarterOf(row[n], Len(row_quarters)) :
            row_quarters \in {QuartersUpTo(row, n - 1)}})

\* row_quarters of one row in extract_from_quarters_sheet
RowQuarters(row) == The({QuartersUpTo(r, Len(r)) : r \in {row}})

\* quarter_row_idx of extract_from_quarters_sheet
find_quarter_row(rows) ==
  FirstOf({i \in 1..Len(rows) : Len(RowQuarters(rows[i])) >= MIN_QUARTER_CELLS})

\* one round of the loop over the quarterly metrics
QuarterStep(rows, quarters, metric, acc) ==
  The({[extracted |-> (metric.key :>
                         (IF row_idx # NoRow
                          THEN [i \in 1..Len(quarters) |-> NumericAt(rows[row_idx], i)]
                          ELSE [i \in 1..Len(quarters) |-> 0])) @@ acc.extracted,
        matched   |-> (metric.key :> row_idx) @@ acc.matched] :
       row_idx \in {TermSearch(rows, metric.terms, 1, {}, FALSE)}})

RECURSIVE QuarterLoop(_, _, _, _)
\* the loop over the quarterly metrics from metric m on
QuarterLoop(rows, quarters, m, acc) ==
  IF m > Len(Q_METRICS) THEN acc
  ELSE QuarterLoop(rows, quarters, m + 1,
                   The({QuarterStep(rows, quarters, Q_METRICS[m], a) : a \in {acc}}))

\* the quarterly handler once its sheet is found
QuarterPass(sheet_data) ==
  The({ The({IF quarter_row_idx = NoRow THEN EmptyResult
             ELSE The({ The({[result |-> pass.extracted, matched |-> pass.matched,
                              used |-> <<>>] :
                             pass \in {QuarterLoop(rows, quarters, 1,
                                         [extracted |-> ("quarters" :> quarters),
                                          matched |-> <<>>])}}) :
                        quarters \in {RowQuarters(rows[quarter_row_idx])}}) :
             quarter_row_idx \in {find_quarter_row(rows)}}) :
        rows \in {sheet_data.rows} })

extract_from_quarters_sheet(sheets) ==
  The({IF sheet_name = NoSheet THEN EmptyResult ELSE QuarterPass(sheets[sheet_name]) :
       sheet_name \in {_find_sheet_by_name(sheets, Q_KEYWORDS)}})

\* a column header that names the company
IsCompanyHeader(col_str) ==
  /\ ~StartsWith(col_str, UNNAMED_PREFIX)
  /\ col_str \notin {SCREENER_IN, NARRATION}
  /\ Len(col_str) > MIN_NAME_LEN
  /\ \E col_upper \in {Upper(col_str)} :
        \E k \in 1..Len(NAME_MARKERS) : IsSubstr(NAME_MARKERS[k], col_upper)

\* the first column of a sheet whose header names the company, 0: none
CompanyColumn(sheet) ==
  FirstOf({c \in 1..Len(sheet.columns) :
             \E col_str \in {Strip(StrOf(sheet.columns[c]))} : IsCompanyHeader(col_str)})

\* the name found, None being modelled by the empty text (the caller tests
\* the name's truth)
_extract_company_name_from_headers(sheets) ==
  The({IF i = 0 THEN <<>> ELSE Strip(StrOf(sheets[i].columns[CompanyColumn(sheets[i])])) :
       i \in {FirstOf({j \in 1..Len(sheets) :
                         /\ ~IsSubstr(CUSTOM, Lower(sheets[j].name))
                         /\ CompanyColumn(sheets[j]) # 0})}})

\* a variant of ScanCell that scans the row to its end
ScanCellWholeRow(row) ==
  FirstOf({i \in 2..Len(row) : NotNa(row[i]) /\ FloatParses(row[i])})

\* the first cell of a row the field scan accepts, range(1, min(len(row), 5))
\* being cells 2 .. min(len(row), 5) counted from 1; 0: none
ScanCell(row) ==
  FirstOf({i \in 2..Min2(Len(row), MAX_SCAN_CELLS) : NotNa(row[i]) /\ FloatParses(row[i])})

RECURSIVE FieldSearch(_, _, _)
\* the loop over a company field's search terms from term i on: <<found, value>>
FieldSearch(rows, terms, i) ==
  IF i > Len(terms) THEN <<FALSE, 0>>
  ELSE The({IF row_idx # NoRow /\ ScanCell(rows[row_idx]) # 0
            THEN <<TRUE, FloatOf(rows[row_idx][ScanCell(rows[row_idx])])>>
            ELSE FieldSearch(rows, terms, i + 1) :
            row_idx \in {find_row_by_label(rows, terms[i])}})

RECURSIVE FieldLoop(_, _, _)
\* the loop over company_fields.items() from field m on
FieldLoop(rows, m, extracted) ==
  IF m > Len(COMPANY_FIELDS) THEN extracted
  ELSE FieldLoop(rows, m + 1,
                 The({(COMPANY_FIELDS[m].key :> (IF hit[1] THEN hit[2] ELSE 0)) @@ e :
                      hit \in {FieldSearch(rows, COMPANY_FIELDS[m].terms, 1)},
                      e \in {extracted}}))

\* a variant of extract_from_data_sheet without the fallback of lines 594-595
data_sheet_without_fallback(sheets) ==
  The({IF sheet_name = NoSheet THEN <<>>
       ELSE The({FieldLoop(rows, 1, IF company_name # <<>>
                                    THEN ("company_name" :> company_name)
                                    ELSE <<>>) :
                 rows \in {sheets[sheet_name].rows},
                 company_name \in {_extract_company_name_from_headers(sheets)}}) :
       sheet_name \in {_find_sheet_by_name(sheets, DATA_KEYWORDS)}})

extract_from_data_sheet(sheets) ==
  The({IF sheet_name = NoSheet THEN <<>>
       ELSE The({IF "company_name" \in DOMAIN extracted THEN extracted
                 ELSE ("company_name" :> UNKNOWN_COMPANY) @@ extracted :
                 extracted \in
                   {The({FieldLoop(rows, 1, IF company_name # <<>>
                                            THEN ("company_name" :> company_name)
                                            ELSE <<>>) :
                         rows \in {sheets[sheet_name].rows},
                         company_name \in {_extract_company_name_from_headers(sheets)}})}}) :
       sheet_name \in {_find_sheet_by_name(sheets, DATA_KEYWORDS)}})

(***************************************************************************)
(* The workbooks the model draws from.  MaxRows bounds the label rows of   *)
(* a sheet, MaxSheets the sheets of a workbook of several sheets and       *)
(* MaxClock the readings of the clock.                                     *)
(***************************************************************************)
MaxRows == 2

MaxSheets == 2

MaxClock == 2

N_PL == <<"P","r","o","f","i","t"," ","&"," ","L","o","s","s"," ","S","t","a","t","e","m","e","n","t">>

N_BS == <<"B","a","l","a","n","c","e"," ","S","h","e","e","t">>

N_CF == <<"C","a","s","h"," ","F","l","o","w">>

N_Q == <<"Q","u","a","r","t","e","r","s">>

N_DATA == <<"D","a","t","a"," ","S","h","e","e","t">>

N_CUSTOM == <<"C","u","s","t","o","m","i","z","a","t","i","o","n">>

N_NOTES == <<"N","o","t","e","s">>

N_Q_PL == <<"Q","u","a","r","t","e","r","l","y"," ","P","&","L">>

\* header rows of annual sheets
AnnualHeaders ==
  { <<Str(<<>>), PyInt(2021), PyInt(2022), PyInt(2023)>>,
    <<NaN, PyInt(2021), PyInt(2022), PyInt(2023)>>,
    <<Str(<<"N","a","r","r","a","t","i","o","n">>), Date(2021, 3, 31), Date(2022, 3, 31), Date(2023, 3, 31)>>,
    <<NaN, Str(<<"M","a","r"," ","2","0","2","1">>), Str(<<"M","a","r"," ","2","0","2","1">>), Str(<<"M","a","r"," ","2","0","2","2">>)>>,
    <<NaN, Date(1899, 12, 31), Date(1990, 3, 31), Date(2030, 3, 31), Date(2031, 3, 31), Date(2020, 3, 31)>>,
    <<NaN, PyInt(1899), PyInt(1990), PyFloat(2030), PyInt(2031), PyInt(2020)>>,
    <<NaN, Str(<<"1","8","9","9">>), Str(<<"1","9","9","0">>), Str(<<"2","0","3","0">>), Str(<<"2","0","3","1">>), Str(<<"F","Y","2","0","2","0">>), Str(<<"2","0","2","0">>)>>,
    <<NaN, PyInt(2031), PyInt(2032), PyInt(2033)>>,
    <<NaN, PyInt(2023), PyInt(2022), PyInt(2021)>>,
    <<Str(<<"Y","e","a","r","s">>), PyInt(2021), PyInt(2022)>> }

\* the cells right of a label
ValueRows ==
  { <<PyInt(500), PyInt(600), PyInt(720)>>,
    <<PyFloat(500), NaN, Str(<<"7","2","0">>)>>,
    <<PyInt(500)>>,
    <<>>,
    <<PyInt(-5), PyInt(0), Str(<<"n","/","a">>), Date(2021, 3, 31), PyInt(9), PyInt(11), PyInt(13)>> }

\* a row: a label and the cells right of it
LabelRow(label, values) == <<label>> \o values

PL_LABELS ==
  { Str(<<"N","e","t"," ","S","a","l","e","s">>), Str(<<"O","p","e","r","a","t","i","n","g"," ","P","r","o","f","i","t">>), Str(<<" ","N","E","T"," ","P","R","O","F","I","T"," ">>),
    Str(<<"P","A","T"," ","/"," ","E","P","S">>), Str(<<"O","t","h","e","r"," ","I","n","c","o","m","e">>), Str(<<>>), Str(<<" ">>), NaN }

BS_LABELS ==
  { Str(<<"E","q","u","i","t","y"," ","S","h","a","r","e"," ","C","a","p","i","t","a","l">>), Str(<<"B","o","r","r","o","w","i","n","g","s">>), Str(<<"T","o","t","a","l"," ","A","s","s","e","t","s">>),
    Str(<<"F","i","x","e","d"," ","A","s","s","e","t","s">>), Str(<<"O","t","h","e","r"," ","A","s","s","e","t","s">>), Str(<<"E","q","u","i","t","y"," ","a","n","d"," ","D","e","b","t">>) }

CF_LABELS ==
  { Str(<<"C","a","s","h"," ","f","r","o","m"," ","O","p","e","r","a","t","i","n","g"," ","A","c","t","i","v","i","t","y">>), Str(<<"C","a","s","h"," ","f","r","o","m"," ","I","n","v","e","s","t","i","n","g"," ","A","c","t","i","v","i","t","y">>),
    Str(<<"C","a","s","h"," ","f","r","o","m"," ","F","i","n","a","n","c","i","n","g"," ","A","c","t","i","v","i","t","y">>), Str(<<"C","a","p","e","x">>), Str(<<"N","e","t"," ","C","a","s","h"," ","F","l","o","w">>) }

\* the values of the label rows of the label study, by place in the sheet
PlaceValues ==
  << <<PyInt(500), PyInt(600), PyInt(720)>>,
     <<PyInt(-40), PyInt(0), PyInt(90)>>,
     <<PyInt(7), PyInt(8), PyFloat(9)>>,
     <<PyInt(1), PyInt(2), PyInt(3)>> >>

RECURSIVE LabelSeqs(_, _)
\* the sequences of n labels
LabelSeqs(labels, n) ==
  IF n = 0 THEN {<<>>}
  ELSE {Append(s, l) : s \in LabelSeqs(labels, n - 1), l \in labels}

\* the sheets of the label study: a header and up to MaxRows label rows
LabelGrids(labels) ==
  { <<h>> \o [i \in 1..Len(ls) |-> LabelRow(ls[i], PlaceValues[((i - 1) % 4) + 1])] :
      h \in { <<Str(<<>>), PyInt(2021), PyInt(2022), PyInt(2023)>>,
              <<NaN, PyInt(2021), PyInt(2022), PyInt(2023)>> },
      ls \in UNION {LabelSeqs(labels, n) : n \in 0..MaxRows} }

\* the sheets of the header study: a title row, a header and one label row
HeaderGrids(label) ==
  { <<<<Str(<<"F","i","g","u","r","e","s"," ","i","n"," ","R","s","."," ","C","r","o","r","e","s">>), NaN, PyInt(2021), PyInt(2022)>>, h, LabelRow(label, v)>> :
      h \in AnnualHeaders, v \in ValueRows }

Sheet(name, columns, rows) == [name |-> name, columns |-> columns, rows |-> rows]

PlainColumns == <<Str(<<"U","n","n","a","m","e","d",":"," ","0">>), Str(<<"U","n","n","a","m","e","d",":"," ","1">>)>>

CompanyColumns == <<Str(<<"S","C","R","E","E","N","E","R",".","I","N">>), Str(<<"N","a","r","r","a","t","i","o","n">>), Str(<<" ","A","c","m","e"," ","L","t","d"," ">>), Str(<<"O","t","h","e","r"," ","C","o","r","p">>)>>

\* balance sheets of a company with negative items: a debt row and an assets
\* row, each with values below zero
LossValues ==
  { <<PyInt(-40), PyInt(0), PyInt(90)>>,
    <<PyInt(-5), PyInt(-7), PyInt(30)>>,
    <<PyInt(-5), PyInt(-7), PyInt(0)>> }

LossGrids ==
  { << <<NaN, PyInt(2021), PyInt(2022), PyInt(2023)>>,
       LabelRow(Str(<<"B","o","r","r","o","w","i","n","g","s">>), debt), LabelRow(Str(<<"F","i","x","e","d"," ","A","s","s","e","t","s">>), assets) >> :
      debt \in LossValues, assets \in LossValues }

\* cash flow sheets whose two rows hold the same values, or nearly
CollisionGrids ==
  { << <<NaN, PyInt(2021), PyInt(2022), PyInt(2023)>>,
       LabelRow(Str(<<"C","a","s","h"," ","f","r","o","m"," ","O","p","e","r","a","t","i","n","g"," ","A","c","t","i","v","i","t","y">>), <<PyInt(5), PyInt(6), PyInt(7)>>),
       LabelRow(Str(<<"C","a","s","h"," ","f","r","o","m"," ","I","n","v","e","s","t","i","n","g"," ","A","c","t","i","v","i","t","y">>), investing) >> :
      investing \in { <<PyInt(5), PyInt(6), PyInt(7)>>, <<PyInt(5), PyInt(6), PyInt(-7)>> } }

AnnualSheets ==
  {Sheet(N_PL, PlainColumns, g) : g \in LabelGrids(PL_LABELS) \cup HeaderGrids(Str(<<"N","e","t"," ","S","a","l","e","s">>))}
  \cup
  {Sheet(N_BS, PlainColumns, g) :
     g \in LabelGrids(BS_LABELS) \cup HeaderGrids(Str(<<"B","o","r","r","o","w","i","n","g","s">>)) \cup LossGrids}
  \cup
  {Sheet(N_CF, PlainColumns, g) :
     g \in LabelGrids(CF_LABELS) \cup HeaderGrids(Str(<<"C","a","p","e","x">>)) \cup CollisionGrids}

\* header rows of quarterly sheets
QuarterHeaders ==
  { <<NaN, Date(2023, 3, 31), Date(2023, 6, 30), Date(2023, 9, 30), Date(2023, 12, 31)>>,
    <<NaN, TimeOfDay, TimeOfDay, TimeOfDay, TimeOfDay, TimeOfDay>>,
    <<Str(<<"N","a","r","r","a","t","i","o","n">>), Str(<<"Q","1"," ","F","Y","2","3">>), Str(<<"q","2"," ","f","y","2","3">>), Str(<<"S","e","p"," ","2","0","2","3">>), Str(<<"D","e","c"," ","2","0","2","3">>)>>,
    <<NaN, Str(<<"Q","1">>), Str(<<"Q","2">>), Str(<<"Q","5">>)>> }

QuarterSheets ==
  {Sheet(N_Q, PlainColumns, <<h, LabelRow(l, v)>>) :
     h \in QuarterHeaders,
     l \in {Str(<<"S","a","l","e","s">>), Str(<<"N","e","t"," ","P","r","o","f","i","t">>), Str(<<"E","x","p","e","n","s","e","s">>)},
     v \in {<<PyInt(500), PyInt(600), PyInt(720), PyFloat(800)>>, <<PyInt(500), NaN>>}}

\* the rows of company-data sheets
DataRows ==
  { <<Str(<<"C","u","r","r","e","n","t"," ","P","r","i","c","e">>), PyInt(250)>>,
    <<Str(<<"M","a","r","k","e","t"," ","C","a","p">>), NaN, Str(<<"n","/","a">>), Str(<<" ","1","2","0","0"," ">>), PyInt(7)>>,
    <<Str(<<"F","a","c","e"," ","V","a","l","u","e">>), NaN, NaN, NaN, NaN, PyInt(10)>>,
    <<Str(<<"N","u","m","b","e","r"," ","o","f"," ","s","h","a","r","e","s">>), Date(2021, 3, 31), PyFloat(40)>>,
    <<Str(<<"S","e","c","t","o","r">>), Str(<<"S","t","e","e","l">>)>> }

DataSheets ==
  {Sheet(N_DATA, c, <<r1, r2>>) :
     c \in {PlainColumns, CompanyColumns}, r1 \in DataRows, r2 \in DataRows}

\* one sheet of each name, for the workbooks of several sheets
SimpleSheets ==
  { Sheet(N_PL, PlainColumns,
          << <<NaN, PyInt(2021), PyInt(2022), PyInt(2023)>>,
             <<Str(<<"S","a","l","e","s">>), PyInt(500), PyInt(600), PyInt(720)>> >>),
    Sheet(N_BS, PlainColumns,
          << <<NaN, PyInt(2021), PyInt(2022), PyInt(2023)>>,
             <<Str(<<"B","o","r","r","o","w","i","n","g","s">>), PyInt(10), PyInt(20), PyInt(30)>> >>),
    Sheet(N_CF, PlainColumns,
          << <<NaN, PyInt(2021), PyInt(2022), PyInt(2023)>>,
             <<Str(<<"C","a","s","h"," ","f","r","o","m"," ","O","p","e","r","a","t","i","n","g"," ","A","c","t","i","v","i","t","y">>), PyInt(5), PyInt(6), PyInt(7)>>,
             <<Str(<<"C","a","s","h"," ","f","r","o","m"," ","I","n","v","e","s","t","i","n","g"," ","A","c","t","i","v","i","t","y">>), PyInt(-2), PyInt(3), PyInt(-4)>> >>),
    Sheet(N_Q, PlainColumns,
          << <<NaN, Str(<<"Q","1">>), Str(<<"Q","2">>), Str(<<"Q","3">>), Str(<<"Q","4">>)>>,
             <<Str(<<"S","a","l","e","s">>), PyInt(1), PyInt(2), PyInt(3), PyInt(4)>> >>),
    Sheet(N_DATA, PlainColumns, << <<Str(<<"C","u","r","r","e","n","t"," ","P","r","i","c","e">>), PyInt(250)>> >>),
    Sheet(N_CUSTOM, <<Str(<<"C","u","s","t","o","m"," ","I","n","c"," ","L","t","d">>)>>, <<>>),
    Sheet(N_NOTES, <<Str(<<"A","c","m","e"," ","L","i","m","i","t","e","d">>)>>, << <<Str(<<"S","a","l","e","s">>), PyInt(1), PyInt(2), PyInt(3)>> >>) }

RECURSIVE SheetSeqs(_)
\* the sequences of n sheets of distinct names
SheetSeqs(n) ==
  IF n = 0 THEN {<<>>}
  ELSE {Append(w, s) : w \in SheetSeqs(n - 1), s \in SimpleSheets} 

DistinctNames(w) == \A i, j \in 1..Len(w) : w[i].name = w[j].name => i = j

\* sheets whose name holds a keyword of the quarterly and of the profit and
\* loss handler
SharedSheets ==
  { Sheet(N_Q_PL, PlainColumns,
          << <<NaN, PyInt(2021), PyInt(2022), PyInt(2023)>>,
             <<Str(<<"S","a","l","e","s">>), PyInt(500), PyInt(600), PyInt(720)>> >>),
    Sheet(N_Q_PL, PlainColumns,
          << <<NaN, Str(<<"Q","1">>), Str(<<"Q","2">>), Str(<<"Q","3">>), Str(<<"Q","4">>)>>,
             <<Str(<<"S","a","l","e","s">>), PyInt(1), PyInt(2), PyInt(3), PyInt(4)>> >>) }

\* what pd.read_excel may return: sheet names are dict keys, hence distinct
Workbooks ==
  {<<s>> : s \in AnnualSheets \cup QuarterSheets \cup DataSheets \cup SharedSheets}
  \cup {w \in UNION {SheetSeqs(n) : n \in 2..MaxSheets} : DistinctNames(w)}
  \cup {<<>>}

(***************************************************************************)
(* The state.  Spec is StockAnalyzer.extract_financial_data calling        *)
(* ExcelDataExtractor.extract_all_data on one Excel path; the variables of *)
(* the other specifications rest while it runs.                            *)
(***************************************************************************)
VARIABLES
  file,            \* the path: "ok", "absent", "denied" or "unreadable"
  workbook,        \* what pd.read_excel returns for the path
  pc,              \* where extract_financial_data stands
  sheets,          \* ExcelDataExtractor.sheets
  parts,           \* the handlers' values, by role, as extract_all_data evaluates them
  extracted_data,  \* ExcelDataExtractor.extracted_data
  returned,        \* what extract_all_data returned
  analyzer_data,   \* StockAnalyzer.extracted_data
  result,          \* what extract_financial_data returned ("none": nothing yet)
  previous,        \* the document of an earlier extract_all_data of the same extractor
  op,              \* the function applied (the study of the functions)
  args,            \* its arguments
  ret,             \* <<>> until it returned, then <<its value>>
  directory,       \* the entries of the stocks directory, in the order glob yields them
  excel_files,     \* excel_files of run_batch_analysis
  file_no,         \* the loop counter i of run_batch_analysis
  bpc,             \* where run_batch_analysis stands
  steps,           \* the steps run_complete_analysis ran on the current file: <<step, outcome>>
  json_path,       \* what the analysis of the current file returned (NoPath: None)
  saved,           \* the workbooks whose JSON report was written
  successful_analyses,   \* BatchStockAnalyzer.successful_analyses
  failed_analyses,       \* BatchStockAnalyzer.failed_analyses
  markdown_reports,      \* markdown_reports of run_batch_analysis
  results          \* what run_batch_analysis returned (<<>>: nothing yet)

extraction_vars ==
  <<file, workbook, pc, sheets, parts, extracted_data, returned, analyzer_data, result>>

call_vars == <<op, args, ret>>

batch_vars ==
  <<directory, excel_files, file_no, bpc, steps, json_path, saved,
    successful_analyses, failed_analyses, markdown_reports, results>>

vars == <<extraction_vars, previous, call_vars, batch_vars>>

\* no function is being applied
CallsRest == op = "none" /\ args = <<>> /\ ret = <<>>

\* no batch is running
BatchRests ==
  /\ directory = <<>>
  /\ excel_files = <<>>
  /\ file_no = 0
  /\ bpc = "none"
  /\ steps = <<>>
  /\ json_path = <<>>
  /\ saved = {}
  /\ successful_analyses = <<>>
  /\ failed_analyses = <<>>
  /\ markdown_reports = <<>>
  /\ results = <<>>

FileStates == {"ok", "absent", "denied", "unreadable"}

Init ==
  /\ file \in FileStates
  /\ workbook \in (IF file = "ok" THEN Workbooks ELSE {<<>>})
  /\ pc = "load"
  /\ sheets = <<>>
  /\ parts = <<>>
  /\ extracted_data = <<>>
  /\ returned = <<>>
  /\ analyzer_data = <<>>
  /\ result = "none"
  /\ previous = <<>>
  /\ CallsRest
  /\ BatchRests

\* a variant of LoadSucceeds without the test of lines 53-55
LoadSucceedsWithoutSheets == file = "ok"

\* load_workbook returns True
LoadSucceeds == file = "ok" /\ workbook # <<>>

\* extract_all_data up to the return of load_workbook
load_workbook ==
  /\ pc = "load"
  /\ sheets' = IF file = "ok" THEN workbook ELSE sheets
  /\ IF LoadSucceeds
     THEN pc' = "company_info" /\ UNCHANGED returned
     ELSE pc' = "returned" /\ returned' = <<>>
  /\ UNCHANGED <<file, workbook, parts, extracted_data, analyzer_data, result,
               previous, call_vars, batch_vars>>

\* one handler of extract_all_data runs and the next one is due
RunHandler(role, value, next) ==
  /\ pc = role
  /\ parts' = (role :> value) @@ parts
  /\ pc' = next
  /\ UNCHANGED <<file, workbook, sheets, extracted_data, returned, analyzer_data, result,
               previous, call_vars, batch_vars>>

ExtractDataSheet ==
  RunHandler("company_info",
             [result |-> extract_from_data_sheet(sheets), matched |-> <<>>, used |-> <<>>],
             "profit_loss")

ExtractProfitLoss ==
  RunHandler("profit_loss", extract_from_profit_loss_sheet(sheets), "balance_sheet")

ExtractBalanceSheet ==
  RunHandler("balance_sheet", extract_from_balance_sheet(sheets), "cash_flow")

\* a variant of ExtractCashFlow: used_rows is shared with the balance sheet pass
ExtractCashFlowSharingUsedRows ==
  RunHandler("cash_flow",
             cash_flow_sharing_used_rows(sheets,
               IF parts["balance_sheet"].used = <<>> THEN {}
               ELSE parts["balance_sheet"].used[Len(parts["balance_sheet"].used)]),
             "quarterly")

ExtractCashFlow ==
  RunHandler("cash_flow", extract_from_cash_flow_sheet(sheets), "quarterly")

ExtractQuarters ==
  RunHandler("quarterly", extract_from_quarters_sheet(sheets), "assemble")

\* extract_all_data stores and returns the document
AssembleDocument ==
  /\ pc = "assemble"
  /\ \E now \in 1..MaxClock :
       extracted_data' =
         [company_info         |-> parts["company_info"].result,
          profit_loss          |-> parts["profit_loss"].result,
          balance_sheet        |-> parts["balance_sheet"].result,
          cash_flow            |-> parts["cash_flow"].result,
          quarterly            |-> parts["quarterly"].result,
          extraction_timestamp |-> now]
  /\ returned' = extracted_data'
  /\ pc' = "returned"
  /\ UNCHANGED <<file, workbook, sheets, parts, analyzer_data, result,
               previous, call_vars, batch_vars>>

\* StockAnalyzer.extract_financial_data after extract_all_data returned
extract_financial_data ==
  /\ pc = "returned"
  /\ analyzer_data' = returned
  /\ result' = (returned # <<>>)
  /\ pc' = "done"
  /\ UNCHANGED <<file, workbook, sheets, parts, extracted_data, returned,
               previous, call_vars, batch_vars>>

Next ==
  \/ load_workbook
  \/ ExtractDataSheet
  \/ ExtractProfitLoss
  \/ ExtractBalanceSheet
  \/ ExtractCashFlow
  \/ ExtractQuarters
  \/ AssembleDocument
  \/ extract_financial_data

Spec == Init /\ [][Next]_vars

(***************************************************************************)
(* SpecRepeat: extract_financial_data is called a second time on the same  *)
(* analyzer and the same file, on the workbooks of several sheets.         *)
(***************************************************************************)
InitRepeat == Init /\ Len(workbook) # 1

\* StockAnalyzer.extract_financial_data is entered again: line 77 makes a new
\* extractor, the analyzer keeps extracted_data until line 78 assigns it
ExtractAgain ==
  /\ pc = "done"
  /\ previous = <<>>
  /\ previous' = <<analyzer_data>>
  /\ pc' = "load"
  /\ sheets' = <<>>
  /\ parts' = <<>>
  /\ extracted_data' = <<>>
  /\ returned' = <<>>
  /\ result' = "none"
  /\ UNCHANGED <<file, workbook, analyzer_data, call_vars, batch_vars>>

NextRepeat ==
  \/ load_workbook
  \/ ExtractDataSheet
  \/ ExtractProfitLoss
  \/ ExtractBalanceSheet
  \/ ExtractCashFlow
  \/ ExtractQuarters
  \/ AssembleDocument
  \/ extract_financial_data
  \/ ExtractAgain

SpecRepeat == InitRepeat /\ [][NextRepeat]_vars

(***************************************************************************)
(* FinancialCalculator.calculate_cagr.  A rate is a record: the code       *)
(* returns 0.0, or round((pow(end_value / start_value, 1 / num_years) - 1) *)
(* * 100, 2), which the record names by its three operands.                *)
(***************************************************************************)
\* 0.0
ZeroRate == [k |-> "zero", end_value |-> 0, start_value |-> 0, num_years |-> 0]

\* lines 77-78 on a positive start_value, end_value and num_years: equal
\* values give pow(1.0, x) - 1 = 0.0
RateOf(end_value, start_value, num_years) ==
  IF end_value = start_value THEN ZeroRate
  ELSE [k |-> "rate", end_value |-> end_value, start_value |-> start_value,
        num_years |-> num_years]

\* the elements of a set of numbers in ascending order: sorted(values.keys())
SortedKeys(keys) ==
  [p \in 1..Cardinality(keys) |->
     CHOOSE y \in keys : Cardinality({z \in keys : z < y}) = p - 1]

\* s[-k:] of Python, k # 0
LastPoints(s, k) ==
  SubSeq(s, (IF k > 0 THEN (IF Len(s) - k > 0 THEN Len(s) - k ELSE 0)
                      ELSE (IF -k < Len(s) THEN -k ELSE Len(s))) + 1, Len(s))

\* a variant of calculate_cagr without the test of line 73
cagr_without_sign_test(values, years) ==
  IF Cardinality(DOMAIN values) < 2 THEN ZeroRate
  ELSE The({IF Len(sorted_years) < 2 THEN ZeroRate
            ELSE RateOf(values[sorted_years[Len(sorted_years)]], values[sorted_years[1]],
                        sorted_years[Len(sorted_years)] - sorted_years[1]) :
            sorted_years \in {IF years # 0 THEN LastPoints(SortedKeys(DOMAIN values), years)
                              ELSE SortedKeys(DOMAIN values)}})

\* years = 0 stands for None (both are false at line 62)
calculate_cagr(values, years) ==
  IF Cardinality(DOMAIN values) < 2 THEN ZeroRate
  ELSE The({IF Len(sorted_years) < 2 THEN ZeroRate
            ELSE The({IF start_value <= 0 \/ end_value <= 0 \/ num_years <= 0
                      THEN ZeroRate
                      ELSE RateOf(end_value, start_value, num_years) :
                      start_value \in {values[sorted_years[1]]},
                      end_value \in {values[sorted_years[Len(sorted_years)]]},
                      num_years \in {sorted_years[Len(sorted_years)] - sorted_years[1]}}) :
            sorted_years \in {IF years # 0 THEN LastPoints(SortedKeys(DOMAIN values), years)
                              ELSE SortedKeys(DOMAIN values)}})

(***************************************************************************)
(* The study of the functions: SpecCalls applies one function of the       *)
(* extractor or of the calculator to arguments drawn from the sets below.  *)
(* MaxCells bounds the cells of a header row given to extract_years.       *)
(***************************************************************************)
MaxCells == 3

RECURSIVE SeqsUpTo(_, _)
\* the sequences of at most n elements of a set
SeqsUpTo(S, n) ==
  IF n = 0 THEN {<<>>}
  ELSE SeqsUpTo(S, n - 1) \cup {Append(s, x) : s \in {t \in SeqsUpTo(S, n - 1) : Len(t) = n - 1}, x \in S}

\* the sequence in reverse order
Reverse(s) == [p \in 1..Len(s) |-> s[Len(s) + 1 - p]]

\* sheet names
StudyNames ==
  { <<"I","n","c","o","m","e"," ","S","t","a","t","e","m","e","n","t">>, <<"P","r","o","f","i","t"," ","&"," ","L","o","s","s">>, <<"B","a","l","a","n","c","e"," ","S","h","e","e","t">>, <<"B","S"," ","F","Y","2","3">>,
    <<"N","o","t","e","s">>, <<"C","A","S","H","F","L","O","W">>, <<"P","&","L"," ","a","n","d"," ","B","a","l","a","n","c","e">> }

\* keyword lists: those of the handlers, three of them in both orders
StudyKeywords ==
  { PL_KEYWORDS, Reverse(PL_KEYWORDS), BS_KEYWORDS, Reverse(BS_KEYWORDS), CF_KEYWORDS,
    Reverse(CF_KEYWORDS), Q_KEYWORDS, DATA_KEYWORDS }

\* the workbooks given to _find_sheet_by_name: the names are distinct
StudyWorkbooks ==
  { [p \in 1..Len(names) |-> Sheet(names[p], PlainColumns, <<>>)] :
      names \in {n \in SeqsUpTo(StudyNames, MaxSheets) :
                   \A p, q \in 1..Len(n) : n[p] = n[q] => p = q} }

\* rows given to find_year_row: 2, 3, 2, 4, 3 and 2 cells count as years
YearStudyRows ==
  { <<Str(<<"F","i","g","u","r","e","s"," ","i","n"," ","R","s","."," ","C","r","o","r","e","s">>), NaN, PyInt(2021), PyInt(2022)>>,
    <<NaN, PyInt(2021), PyInt(2022), PyInt(2023)>>,
    <<Str(<<"S","a","l","e","s"," ","2","0","2","0">>), PyInt(500), Str(<<"F","Y","2","0","2","1">>), Date(2022, 3, 31)>>,
    <<Str(<<"M","a","r"," ","2","0","2","1">>), Str(<<"M","a","r"," ","2","0","2","2">>), Str(<<"M","a","r"," ","2","0","2","3">>), Str(<<"M","a","r"," ","2","0","2","4">>)>>,
    <<NaN, PyInt(1985), PyFloat(1999), PyInt(2031)>>,
    <<NaN, Date(1985, 3, 31), Date(2021, 3, 31), Date(2022, 3, 31)>> }

\* rows given to the quarterly locator: the headers of QuarterHeaders (4, 5,
\* 4 and 2 cells count as quarters), a row of 3 and a row of none
QuarterStudyRows ==
  QuarterHeaders \cup
  { <<NaN, Str(<<"M","a","r"," ","2","0","2","3">>), Str(<<"j","u","n"," ","2","0","2","3">>), Date(1899, 12, 31)>>,
    <<Str(<<"S","a","l","e","s">>), PyInt(500), PyInt(600), PyInt(720), PyInt(800)>> }

\* cells given to extract_years
YearStudyCells ==
  { PyInt(2023), PyInt(2021), Str(<<"M","a","r"," ","2","0","2","1">>), Date(2022, 3, 31), PyFloat(1990),
    PyInt(2031), Str(<<"n","/","a">>), NaN }

\* first cells of the rows given to find_row_by_label
StudyLabels ==
  { Str(<<"C","o","s","t"," ","o","f"," ","S","a","l","e","s">>), Str(<<"S","a","l","e","s">>), Str(<<" ","N","E","T"," ","S","A","L","E","S"," ">>), Str(<<"N","e","t","-","P","r","o","f","i","t">>),
    Str(<<"P","r","o","f","i","t">>), Str(<<"C","a","s","h"," ","f","r","o","m"," ","O","p","e","r","a","t","i","n","g"," ","A","c","t","i","v","i","t","y">>), Str(<<>>), PyInt(2021), NaN }

\* labels find_row_by_label is asked for
StudyTerms ==
  { <<"s","a","l","e","s">>, <<" ","N","e","t"," ","P","r","o","f","i","t">>, <<"c","a","s","h"," ","f","r","o","m"," ","i","n","v","e","s","t","i","n","g"," ","a","c","t","i","v","i","t","y">>, <<"f","y"," ","2","0","2","1">>, <<"e","b","i","t">>,
    <<"t","o","t","a","l"," ","p","r","o","f","i","t">> }

\* the series given to calculate_cagr: year -> value
StudySeries ==
  UNION { [keys -> {-5, 0, 100, 144}] : keys \in SUBSET {2020, 2021, 2023} }

\* the years argument of calculate_cagr: None (0), or a number of points
StudyPoints == {0, 1, 2, 3, 5}

(***************************************************************************)
(* The recommendation: FinancialCalculator.calculate_investment_score from *)
(* the category scores on, config.get_recommendation_from_score, and the   *)
(* investment_score section of StockAnalyzer.compile_final_analysis.       *)
(***************************************************************************)
\* RECOMMENDATION_THRESHOLDS, in the order of the dict
RECOMMENDATION_THRESHOLDS ==
  << [rec_type |-> <<"s","t","r","o","n","g","_","b","u","y">>, min_score |-> 70, confidence |-> <<"H","I","G","H">>],
     [rec_type |-> <<"b","u","y">>, min_score |-> 50, confidence |-> <<"M","E","D","I","U","M">>],
     [rec_type |-> <<"h","o","l","d">>, min_score |-> 30, confidence |-> <<"M","E","D","I","U","M">>],
     [rec_type |-> <<"a","v","o","i","d">>, min_score |-> 0, confidence |-> <<"H","I","G","H">>] >>

\* str.replace('_', ' ')
ReplaceUnderscore(s) == [i \in 1..Len(s) |-> IF s[i] = "_" THEN " " ELSE s[i]]

\* a variant of get_recommendation_from_score whose test is score > min_score
get_recommendation_above_minimum(score) ==
  The({IF n = 0 THEN [recommendation |-> <<"A","V","O","I","D">>, confidence |-> <<"H","I","G","H">>]
       ELSE [recommendation |-> ReplaceUnderscore(Upper(RECOMMENDATION_THRESHOLDS[n].rec_type)),
             confidence |-> RECOMMENDATION_THRESHOLDS[n].confidence] :
       n \in {FirstOf({i \in 1..Len(RECOMMENDATION_THRESHOLDS) :
                         score > RECOMMENDATION_THRESHOLDS[i].min_score})}})

\* the first entry of RECOMMENDATION_THRESHOLDS whose min_score the score
\* reaches; AVOID and HIGH when there is none
get_recommendation_from_score(score) ==
  The({IF n = 0 THEN [recommendation |-> <<"A","V","O","I","D">>, confidence |-> <<"H","I","G","H">>]
       ELSE [recommendation |-> ReplaceUnderscore(Upper(RECOMMENDATION_THRESHOLDS[n].rec_type)),
             confidence |-> RECOMMENDATION_THRESHOLDS[n].confidence] :
       n \in {FirstOf({i \in 1..Len(RECOMMENDATION_THRESHOLDS) :
                         score >= RECOMMENDATION_THRESHOLDS[i].min_score})}})

\* sum(scoring.values())
TotalScore(scoring) ==
  scoring.growth_quality + scoring.profitability + scoring.financial_health
    + scoring.cash_flow_quality + scoring.valuation

\* calculate_investment_score once the five category scores are assigned
calculate_investment_score(scoring) ==
  The({[total_score |-> total_score,
        category_scores |-> scoring,
        recommendation |-> IF total_score >= 70 THEN <<"S","T","R","O","N","G"," ","B","U","Y">>
                           ELSE IF total_score >= 50 THEN <<"B","U","Y">>
                           ELSE IF total_score >= 30 THEN <<"H","O","L","D">>
                           ELSE <<"A","V","O","I","D">>,
        confidence_level |-> IF total_score >= 70 THEN <<"H","I","G","H">>
                             ELSE IF total_score >= 50 THEN <<"M","E","D","I","U","M">>
                             ELSE IF total_score >= 30 THEN <<"M","E","D","I","U","M">>
                             ELSE <<"H","I","G","H">>] :
       total_score \in {TotalScore(scoring)}})

\* final_analysis['investment_score'] of compile_final_analysis;
\* calculated_metrics is <<>> without the key 'investment_score' and
\* <<investment_score>> with it, category_scores is <<>> for {} and
\* <<scoring>> for the scores
InvestmentScoreSection(calculated_metrics) ==
  The({[total_score |-> score,
        category_scores |-> IF calculated_metrics = <<>> THEN <<>>
                            ELSE <<calculated_metrics[1].category_scores>>,
        recommendation |-> get_recommendation_from_score(score).recommendation,
        confidence_level |-> get_recommendation_from_score(score).confidence] :
       score \in {IF calculated_metrics = <<>> THEN 0 ELSE calculated_metrics[1].total_score}})

\* the category scores the branches of calculate_investment_score assign
StudyScorings ==
  [growth_quality : {0, 10, 15, 20}, profitability : {0, 10, 15, 20},
   financial_health : {0, 10, 15, 20}, cash_flow_quality : {0, 10, 15, 20},
   valuation : {5, 10, 15, 20}]

\* scores given to get_recommendation_from_score
StudyScores == -5..105

\* the extraction rests
ExtractionRests ==
  /\ file = "ok"
  /\ workbook = <<>>
  /\ pc = "none"
  /\ sheets = <<>>
  /\ parts = <<>>
  /\ extracted_data = <<>>
  /\ returned = <<>>
  /\ analyzer_data = <<>>
  /\ result = "none"
  /\ previous = <<>>

InitCalls ==
  /\ ExtractionRests
  /\ BatchRests
  /\ ret = <<>>
  /\ \/ op = "_find_sheet_by_name" /\ args \in StudyWorkbooks \X StudyKeywords
     \/ op = "find_year_row" /\ args \in {<<rows>> : rows \in SeqsUpTo(YearStudyRows, MaxRows)}
     \/ op = "find_quarter_row"
          /\ args \in {<<rows>> : rows \in SeqsUpTo(QuarterStudyRows, MaxRows)}
     \/ op = "extract_years"
          /\ args \in {<<year_row>> : year_row \in SeqsUpTo(YearStudyCells, MaxCells)}
     \/ op = "find_row_by_label"
          /\ args \in {<<[p \in 1..Len(ls) |-> LabelRow(ls[p], PlaceValues[1])], label>> :
                         ls \in SeqsUpTo(StudyLabels, MaxRows), label \in StudyTerms}
     \/ op = "calculate_cagr" /\ args \in StudySeries \X StudyPoints
     \/ op = "calculate_investment_score" /\ args \in {<<scoring>> : scoring \in StudyScorings}
     \/ op = "get_recommendation_from_score" /\ args \in {<<score>> : score \in StudyScores}
     \/ op = "compile_final_analysis"
          /\ args \in {<<<<>>>>}
                       \cup {<<<<calculate_investment_score(scoring)>>>> :
                               scoring \in StudyScorings}

\* the function op returns value
Return(name, value) ==
  /\ op = name
  /\ ret = <<>>
  /\ ret' = <<value>>
  /\ UNCHANGED <<op, args, extraction_vars, previous, batch_vars>>

CallFindSheetByName == Return("_find_sheet_by_name", _find_sheet_by_name(args[1], args[2]))

CallFindYearRow == Return("find_year_row", find_year_row(args[1]))

\* the quarterly locator within extract_from_quarters_sheet: the row it
\* selects and what the handler returns
CallFindQuarterRow ==
  Return("find_quarter_row",
         [row |-> find_quarter_row(args[1]),
          result |-> extract_from_quarters_sheet(<<Sheet(N_Q, PlainColumns, args[1])>>).result])

CallExtractYears == Return("extract_years", extract_years(args[1]))

CallFindRowByLabel == Return("find_row_by_label", find_row_by_label(args[1], args[2]))

CallCalculateCagr == Return("calculate_cagr", calculate_cagr(args[1], args[2]))

CallCalculateInvestmentScore ==
  Return("calculate_investment_score", calculate_investment_score(args[1]))

CallGetRecommendationFromScore ==
  Return("get_recommendation_from_score", get_recommendation_from_score(args[1]))

\* compile_final_analysis as far as final_analysis['investment_score']
CallCompileFinalAnalysis == Return("compile_final_analysis", InvestmentScoreSection(args[1]))

NextCalls ==
  \/ CallFindSheetByName
  \/ CallFindYearRow
  \/ CallFindQuarterRow
  \/ CallExtractYears
  \/ CallFindRowByLabel
  \/ CallCalculateCagr
  \/ CallCalculateInvestmentScore
  \/ CallGetRecommendationFromScore
  \/ CallCompileFinalAnalysis

SpecCalls == InitCalls /\ [][NextCalls]_vars

(***************************************************************************)
(* SpecBatch: scripts/batch_stock_analysis.py.  One BatchStockAnalyzer is  *)
(* constructed and run_batch_analysis runs once, as main() does.  Each     *)
(* workbook goes through analyze_stock_workbook; what a step of            *)
(* run_complete_analysis returns depends on the file and is chosen freely. *)
(***************************************************************************)
MaxFiles == 2

\* None as the path analyze_stock_workbook returns
NoPath == 0

\* the *.xlsx entries a directory can hold: workbook `name`, or the lock file
\* of that workbook (its name starts with "~")
DirectoryEntries == [name : 1..MaxFiles, temp : BOOLEAN]

\* the directories, in the order glob yields the entries
Directories ==
  {d \in SeqsUpTo(DirectoryEntries, MaxFiles) :
     \A a \in 1..Len(d) : \A b \in 1..Len(d) : a # b => d[a] # d[b]}

get_excel_files(entries) ==
  SortedKeys({entries[e].name : e \in {e \in 1..Len(entries) : ~entries[e].temp}})

InitBatch ==
  /\ ExtractionRests
  /\ CallsRest
  /\ directory \in Directories
  /\ excel_files = <<>>
  /\ file_no = 0
  /\ bpc = "run_batch_analysis"
  /\ steps = <<>>
  /\ json_path = <<>>
  /\ saved = {}
  /\ successful_analyses = <<>>
  /\ failed_analyses = <<>>
  /\ markdown_reports = <<>>
  /\ results = <<>>

\* the workbook the loop of run_batch_analysis is at
excel_file == excel_files[file_no]

\* lines 578-592: the files are listed; with none the result is returned
run_batch_analysis ==
  /\ bpc = "run_batch_analysis"
  /\ excel_files' = get_excel_files(directory)
  /\ IF Len(excel_files') = 0
       THEN /\ results' = [total_files |-> 0, successful_analyses |-> 0,
                           failed_analyses |-> 0,
                           success_rate |-> [dividend |-> 0, divisor |-> 1],
                           reports_generated |-> [type |-> "list", value |-> <<>>]]
            /\ bpc' = "done"
            /\ UNCHANGED file_no
       ELSE /\ file_no' = 1
            /\ bpc' = "validate_input"
            /\ UNCHANGED results
  /\ UNCHANGED <<directory, steps, json_path, saved, successful_analyses,
                 failed_analyses, markdown_reports>>
  /\ UNCHANGED <<extraction_vars, previous, call_vars>>

\* a step of run_complete_analysis returned; on a false value
\* run_complete_analysis returns None
StepReturns(step, outcome, next) ==
  /\ bpc = step
  /\ steps' = Append(steps, <<excel_file, step, outcome>>)
  /\ IF outcome = "True"
       THEN bpc' = next /\ UNCHANGED json_path
       ELSE bpc' = "run_analysis_on_file" /\ json_path' = <<NoPath>>
  /\ UNCHANGED <<directory, excel_files, file_no, successful_analyses,
                 failed_analyses, markdown_reports, results>>
  /\ UNCHANGED <<extraction_vars, previous, call_vars>>

\* validate_excel_file has no handler of its own: os.path.getsize may raise,
\* and analyze_stock_workbook turns that into None
validate_input ==
  \E outcome \in {"True", "False", "raise"} :
    StepReturns("validate_input", outcome, "extract_financial_data") /\ UNCHANGED saved

\* StockAnalyzer.extract_financial_data as run_complete_analysis sees it
extract_financial_data_step ==
  \E outcome \in {"True", "False"} :
    StepReturns("extract_financial_data", outcome, "calculate_financial_metrics")
      /\ UNCHANGED saved

\* a variant of calculate_financial_metrics whose value is not tested
calculate_financial_metrics_unchecked ==
  /\ bpc = "calculate_financial_metrics"
  /\ \E outcome \in {"True", "False"} :
       steps' = Append(steps, <<excel_file, "calculate_financial_metrics", outcome>>)
  /\ bpc' = "compile_final_analysis"
  /\ UNCHANGED <<directory, excel_files, file_no, json_path, saved, successful_analyses,
                 failed_analyses, markdown_reports, results>>
  /\ UNCHANGED <<extraction_vars, previous, call_vars>>

calculate_financial_metrics ==
  \E outcome \in {"True", "False"} :
    StepReturns("calculate_financial_metrics", outcome, "compile_final_analysis")
      /\ UNCHANGED saved

compile_final_analysis ==
  \E outcome \in {"True", "False"} :
    StepReturns("compile_final_analysis", outcome, "save_analysis") /\ UNCHANGED saved

\* save_json_report: the file is written and its path returned; or nothing is
\* written; or the file is opened and json.dump raises
save_analysis ==
  /\ bpc = "save_analysis"
  /\ \E outcome \in {"path", "None", "None after open"} :
       /\ steps' = Append(steps, <<excel_file, "save_analysis", outcome>>)
       /\ json_path' = IF outcome = "path" THEN <<excel_file>> ELSE <<NoPath>>
       /\ saved' = IF outcome = "None" THEN saved
                   ELSE saved \cup {[file |-> excel_file, complete |-> outcome = "path"]}
  /\ bpc' = "run_analysis_on_file"
  /\ UNCHANGED <<directory, excel_files, file_no, successful_analyses,
                 failed_analyses, markdown_reports, results>>
  /\ UNCHANGED <<extraction_vars, previous, call_vars>>

\* the last timestamp recorded so far
LastStamp ==
  The({IF stamps = {} THEN 1 ELSE CHOOSE t \in stamps : \A u \in stamps : u <= t :
       stamps \in {{successful_analyses[e].timestamp : e \in 1..Len(successful_analyses)}
                     \cup {failed_analyses[e].timestamp : e \in 1..Len(failed_analyses)}}})

\* lines 74-90, once analyze_stock_workbook returned.  The handler of lines
\* 92-100 is not modelled: analyze_stock_workbook raises no Exception.
run_analysis_on_file ==
  /\ bpc = "run_analysis_on_file"
  /\ \E now \in LastStamp..MaxClock :
       IF json_path[1] # NoPath
         THEN /\ successful_analyses' =
                   Append(successful_analyses,
                          [excel_file |-> excel_file, json_file |-> json_path[1],
                           timestamp |-> now])
              /\ bpc' = "create_markdown_report"
              /\ UNCHANGED failed_analyses
         ELSE /\ failed_analyses' =
                   Append(failed_analyses,
                          [excel_file |-> excel_file, error |-> "Analysis returned None",
                           timestamp |-> now])
              /\ bpc' = "log_analysis_progress"
              /\ UNCHANGED successful_analyses
  /\ UNCHANGED <<directory, excel_files, file_no, steps, json_path, saved,
                 markdown_reports, results>>
  /\ UNCHANGED <<extraction_vars, previous, call_vars>>

\* lines 602-606: the report is written, or create_markdown_report caught an
\* exception and returned None
create_markdown_report ==
  /\ bpc = "create_markdown_report"
  /\ \E written \in BOOLEAN :
       markdown_reports' = IF written THEN Append(markdown_reports, json_path[1])
                           ELSE markdown_reports
  /\ bpc' = "log_analysis_progress"
  /\ UNCHANGED <<directory, excel_files, file_no, steps, json_path, saved,
                 successful_analyses, failed_analyses, results>>
  /\ UNCHANGED <<extraction_vars, previous, call_vars>>

\* line 609 and the return to the head of the loop
log_analysis_progress ==
  /\ bpc = "log_analysis_progress"
  /\ IF file_no < Len(excel_files)
       THEN file_no' = file_no + 1 /\ bpc' = "validate_input"
       ELSE UNCHANGED file_no /\ bpc' = "summary"
  /\ json_path' = <<>>
  /\ UNCHANGED <<directory, excel_files, steps, saved, successful_analyses,
                 failed_analyses, markdown_reports, results>>
  /\ UNCHANGED <<extraction_vars, previous, call_vars>>

\* lines 611-634
BatchSummary ==
  /\ bpc = "summary"
  /\ results' =
       [total_files |-> Len(excel_files),
        successful_analyses |-> Len(successful_analyses),
        failed_analyses |-> Len(failed_analyses),
        success_rate |-> [dividend |-> Len(successful_analyses) * 100,
                          divisor |-> Len(excel_files)],
        reports_generated |-> [type |-> "int", value |-> Len(markdown_reports)],
        successful_files |-> [e \in 1..Len(successful_analyses) |->
                                successful_analyses[e].excel_file],
        failed_files |-> [e \in 1..Len(failed_analyses) |->
                            failed_analyses[e].excel_file],
        markdown_reports |-> markdown_reports]
  /\ bpc' = "done"
  /\ UNCHANGED <<directory, excel_files, file_no, steps, json_path, saved,
                 successful_analyses, failed_analyses, markdown_reports>>
  /\ UNCHANGED <<extraction_vars, previous, call_vars>>

NextBatch ==
  \/ run_batch_analysis
  \/ validate_input
  \/ extract_financial_data_step
  \/ calculate_financial_metrics
  \/ compile_final_analysis
  \/ save_analysis
  \/ run_analysis_on_file
  \/ create_markdown_report
  \/ log_analysis_progress
  \/ BatchSummary

SpecBatch == InitBatch /\ [][NextBatch]_vars

(***************************************************************************)
(* The claims                                                              *)
(***************************************************************************)
AnnualRoles == {"profit_loss", "balance_sheet", "cash_flow"}

DataRoles == AnnualRoles \cup {"quarterly"}

\* the keywords a role's handler looks its sheet up with
RoleKeywords(role) ==
  CASE role = "profit_loss"   -> PL_KEYWORDS
    [] role = "balance_sheet" -> BS_KEYWORDS
    [] role = "cash_flow"     -> CF_KEYWORDS
    [] role = "quarterly"     -> Q_KEYWORDS
    [] OTHER                  -> DATA_KEYWORDS

\* the metrics a role's handler looks up
RoleMetrics(role) ==
  CASE role = "profit_loss"   -> PL_METRICS
    [] role = "balance_sheet" -> BS_METRICS
    [] role = "cash_flow"     -> CF_METRICS
    [] OTHER                  -> Q_METRICS

\* extract_all_data returned a document
DocReady == pc \in {"returned", "done"} /\ returned # <<>>

\* every handler of extract_all_data has returned
HandlersDone == pc = "assemble"

\* where extract_all_data stands when the role's handler has just returned
After(role) ==
  CASE role = "company_info"  -> "profit_loss"
    [] role = "profit_loss"   -> "balance_sheet"
    [] role = "balance_sheet" -> "cash_flow"
    [] role = "cash_flow"     -> "quarterly"
    [] OTHER                  -> "assemble"

\* the role's handler has just returned
Returned(role) == pc = After(role)

\* the rows of the sheet the role's handler selects
RoleRows(role) == sheets[_find_sheet_by_name(sheets, RoleKeywords(role))].rows

\* the role's handler found its sheet and the sheet's temporal row
Located(role) == Returned(role) /\ parts[role].result # <<>>

\* C1 as claimed: after extract_all_data, every metric series of a located
\* annual role has exactly len(years) entries (duplicate years counted), all
\* keyed by years of the axis, and every quarterly list has len(quarters)
\* entries.
C1_SeriesHaveAxisLength ==
  DocReady =>
    /\ \A role \in AnnualRoles :
         extracted_data[role] # <<>> =>
           \A key \in DOMAIN extracted_data[role] \ {"years"} :
              /\ Cardinality(DOMAIN extracted_data[role][key])
                   = Len(extracted_data[role]["years"])
              /\ DOMAIN extracted_data[role][key] \subseteq Range(extracted_data[role]["years"])
    /\ extracted_data["quarterly"] # <<>> =>
         \A key \in DOMAIN extracted_data["quarterly"] \ {"quarters"} :
            Len(extracted_data["quarterly"][key]) = Len(extracted_data["quarterly"]["quarters"])

\* the rows used_rows holds when the loop reaches metric m of a role
UsedBefore(role, m) ==
  IF role = "profit_loss" \/ m = 1 THEN {} ELSE parts[role].used[m - 1]

\* no synonym of metric m yields a usable row: each finds no row, or (in the
\* roles that track used rows) a row taken by an earlier metric
NoUsableRow(role, m) ==
  \A t \in 1..Len(RoleMetrics(role)[m].terms) :
     \E row_idx \in {find_row_by_label(RoleRows(role), RoleMetrics(role)[m].terms[t])} :
        row_idx = NoRow \/ row_idx \in UsedBefore(role, m)

\* the recomputation of total_assets has a value to substitute
Substitutes(role, key) ==
  /\ role = "balance_sheet"
  /\ key = "total_assets"
  /\ \E y \in Range(parts[role].result["years"]) :
        CalculatedTotalAssets(parts[role].result, y) > 0

\* C2: a metric of a located annual role for which no synonym yields a usable
\* row is present and maps every year of the axis to 0.0, total_assets
\* excepted when the recomputation substitutes it.
C2_UnmatchedMetricIsZeroSeries ==
  \A role \in AnnualRoles :
     Located(role) =>
       \A m \in 1..Len(RoleMetrics(role)) :
          \E key \in {RoleMetrics(role)[m].key} :
             (NoUsableRow(role, m) /\ ~Substitutes(role, key)) =>
               /\ key \in DOMAIN parts[role].result
               /\ DOMAIN parts[role].result[key] = Range(parts[role].result["years"])
               /\ \A y \in DOMAIN parts[role].result[key] : parts[role].result[key][y] = 0

\* C2's case: a located role with a non-empty axis and a metric without a row
C2_Witness ==
  /\ Located("cash_flow")
  /\ Len(parts["cash_flow"].result["years"]) >= 3
  /\ NoUsableRow("cash_flow", 2)
  /\ ~NoUsableRow("cash_flow", 1)
  /\ \A y \in Range(parts["cash_flow"].result["years"]) :
        parts["cash_flow"].result["capex"][y] = 0

\* C3: in the balance sheet and cash flow passes no two metrics are assigned
\* the same row, used_rows only grows, and a metric's row enters used_rows
\* when it is assigned and was not in it before.
C3_NoRowAliasing ==
  \A role \in {"balance_sheet", "cash_flow"} :
     Located(role) =>
       /\ \A k1, k2 \in DOMAIN parts[role].matched :
            (parts[role].matched[k1] # NoRow /\ parts[role].matched[k1] = parts[role].matched[k2])
              => k1 = k2
       /\ \A m \in 1..Len(RoleMetrics(role)) :
            /\ UsedBefore(role, m) \subseteq parts[role].used[m]
            /\ \E row_idx \in {parts[role].matched[RoleMetrics(role)[m].key]} :
                  row_idx # NoRow =>
                    row_idx \in parts[role].used[m] /\ row_idx \notin UsedBefore(role, m)

\* C3's case: a later metric's synonym finds a row an earlier metric took, and
\* the metric is given another row
C3_Witness ==
  /\ Located("cash_flow")
  /\ parts["cash_flow"].matched["operating_cash_flow"] # NoRow
  /\ parts["cash_flow"].matched["capex"] # NoRow
  /\ \E t \in 1..Len(CF_METRICS[2].terms) :
        find_row_by_label(RoleRows("cash_flow"), CF_METRICS[2].terms[t])
          = parts["cash_flow"].matched["operating_cash_flow"]

\* C4 as claimed: in the profit and loss pass no two metrics are assigned the
\* same row of the sheet.
C4_ProfitLossNoRowAliasing ==
  Located("profit_loss") =>
    \A k1, k2 \in DOMAIN parts["profit_loss"].matched :
       (parts["profit_loss"].matched[k1] # NoRow
          /\ parts["profit_loss"].matched[k1] = parts["profit_loss"].matched[k2])
         => k1 = k2


\* the profit and loss sheet is a header row whose label cell is the empty
\* string followed by at least 3 ascending in-range years, and one label row
\* whose text matches a sales synonym
C5_Sheet(rows) ==
  /\ Len(rows) = 2
  /\ Len(rows[1]) >= 4
  /\ rows[1][1] = Str(<<>>)
  /\ \A i \in 2..Len(rows[1]) :
        /\ rows[1][i].k = "int"
        /\ 1990 <= rows[1][i].v /\ rows[1][i].v <= 2030
        /\ i > 2 => rows[1][i - 1].v < rows[1][i].v
  /\ Len(rows[2]) = Len(rows[1])
  /\ rows[2][1].k = "str"
  /\ \E t \in 1..Len(PL_METRICS[1].terms) :
        IsSubstr(PL_METRICS[1].terms[t], Strip(Lower(rows[2][1].s)))
  /\ \A i \in 2..Len(rows[2]) : rows[2][i].k \in {"int", "float"}

\* C5 as claimed: on such a sheet profit_loss.years are the header years and
\* profit_loss['sales'] maps each year to the label row's value in the same
\* column.
C5_SalesFromLabelRow ==
  (Returned("profit_loss") /\ _find_sheet_by_name(sheets, PL_KEYWORDS) # NoSheet) =>
    \E rows \in {RoleRows("profit_loss")} :
       C5_Sheet(rows) =>
         /\ parts["profit_loss"].result # <<>>
         /\ parts["profit_loss"].result["years"]
              = [i \in 1..(Len(rows[1]) - 1) |-> rows[1][i + 1].v]
         /\ parts["profit_loss"].result["sales"]
              = [y \in {rows[1][i].v : i \in 2..Len(rows[1])} |->
                   rows[2][CHOOSE i \in 2..Len(rows[1]) : rows[1][i].v = y].v]

\* the row the role's handler reads the years from
YearRow(role) == RoleRows(role)[find_year_row(RoleRows(role))]

\* the year a header cell shows as a date-like value, as a number or as a
\* 4-digit text; 0 when it shows none that way
NominalYear(cell) ==
  IF cell.k = "date" \/ cell.k = "int" \/ cell.k = "float" THEN cell.v
  ELSE IF cell.k = "str" /\ Len(cell.s) = 4 /\ \A i \in 1..4 : IsDigitChar(cell.s[i])
       THEN DigitsValue(cell.s)
       ELSE 0

\* C6: the axis extract_years returns holds no year outside [1990, 2030]; a
\* header cell whose year is 1990 or 2030 is on the axis, and the cells whose
\* year is 1899 or 2031 add no entry to it.
C6_YearsWithinRange ==
  \A role \in AnnualRoles :
     Located(role) =>
       \E year_row \in {YearRow(role)}, years \in {parts[role].result["years"]} :
          /\ \A i \in 1..Len(years) : 1990 <= years[i] /\ years[i] <= 2030
          /\ \A c \in 1..Len(year_row) :
                NominalYear(year_row[c]) \in {1990, 2030} =>
                  NominalYear(year_row[c]) \in Range(years)
          /\ Len(years) <= Cardinality({c \in 1..Len(year_row) :
                                          /\ year_row[c].k # "nan"
                                          /\ NominalYear(year_row[c]) \notin {1899, 2031}})

\* C6's case: a header with date-like cells of 1899, 1990, 2030 and 2031
C6_Witness ==
  \E role \in AnnualRoles :
     /\ Located(role)
     /\ \A y \in {1899, 1990, 2030, 2031} :
           \E c \in 1..Len(YearRow(role)) :
              YearRow(role)[c].k = "date" /\ YearRow(role)[c].v = y
     /\ parts[role].result["years"] = <<1990, 2020, 2030>>

\* what C7 states for the cell of row at place c (from 1): the number when
\* the cell exists and is numeric, 0.0 otherwise
StatedValue(row, c) ==
  IF c <= Len(row) /\ row[c].k \in {"int", "float"} THEN row[c].v ELSE 0

\* the years of the axis are distinct
DistinctYears(years) ==
  \A i, j \in 1..Len(years) : years[i] = years[j] => i = j

Handler(role, sh) ==
  CASE role = "company_info"  -> extract_from_data_sheet(sh)
    [] role = "profit_loss"   -> extract_from_profit_loss_sheet(sh).result
    [] role = "balance_sheet" -> extract_from_balance_sheet(sh).result
    [] role = "cash_flow"     -> extract_from_cash_flow_sheet(sh).result
    [] OTHER                  -> extract_from_quarters_sheet(sh).result

\* no sheet name of the loaded workbook contains a keyword of the role
NoSheetFor(role) == _find_sheet_by_name(sheets, RoleKeywords(role)) = NoSheet

\* the role's sheet has no temporal header row
NoHeaderFor(role) ==
  IF role = "quarterly"
  THEN find_quarter_row(RoleRows(role)) = NoRow
  ELSE find_year_row(RoleRows(role)) = NoRow

\* the name of the role's sheet in the workbooks of several sheets
RoleSheetName(role) ==
  CASE role = "profit_loss"   -> N_PL
    [] role = "balance_sheet" -> N_BS
    [] role = "cash_flow"     -> N_CF
    [] OTHER                  -> N_Q

\* the sheets of the role's name, one of which a workbook without the role's
\* sheet might have held
SheetsOnlyFor(role) == {s \in SimpleSheets : s.name = RoleSheetName(role)}

\* only the role selects a sheet of its name
SelectedOnlyBy(role) ==
  \A s \in SheetsOnlyFor(role), r \in DataRoles \cup {"company_info"} :
     (_find_sheet_by_name(<<s>>, RoleKeywords(r)) # NoSheet) <=> (r = role)

\* C8: a role without a sheet, or whose sheet has no temporal header row,
\* yields {} in the handler and in the document, and every other role's
\* result is what it would be with a sheet of that role in the workbook.
C8_UnlocatedRoleIsEmpty ==
  /\ \A role \in DataRoles :
        (Returned(role) /\ (NoSheetFor(role) \/ NoHeaderFor(role))) =>
          parts[role].result = <<>>
  /\ DocReady => \A role \in DataRoles : returned[role] = parts[role].result
  /\ HandlersDone =>
       \A role \in DataRoles :
          NoSheetFor(role) =>
            \A s \in SheetsOnlyFor(role), other \in (DataRoles \cup {"company_info"}) \ {role} :
               Handler(other, <<s>> \o sheets) = parts[other].result

\* C8's case: a workbook without a sheet of one role and with a located sheet
\* of another, and a workbook whose sheet of a role has no header row
C8_Witness ==
  /\ DocReady
  /\ \E role \in DataRoles, other \in DataRoles :
        /\ NoSheetFor(role)
        /\ returned[role] = <<>>
        /\ returned[other] # <<>>
        /\ SheetsOnlyFor(role) # {}
        /\ SelectedOnlyBy(role)

\* the keys of a structurally complete company_info record
CompanyKeys ==
  {"company_name", "current_price", "market_cap", "face_value", "outstanding_shares"}

\* C9 as claimed: the company_info record of every extracted document holds
\* company_name and the four numeric fields, also when no company-data sheet
\* can be located.
C9_CompanyInfoAlwaysComplete ==
  DocReady => CompanyKeys \subseteq DOMAIN returned["company_info"]

\* no row of the company-data sheet is labelled for the field
FieldWithoutRow(m) ==
  \A t \in 1..Len(COMPANY_FIELDS[m].terms) :
     find_row_by_label(RoleRows("company_info"), COMPANY_FIELDS[m].terms[t]) = NoRow

\* C9 amended: when a company-data sheet is located, company_info holds
\* exactly company_name (the name found in the sheet headers, otherwise
\* "Unknown Company") and the four numeric fields (0.0 for a field no row is
\* labelled for); when none is located, company_info is {}; the document
\* holds the record as the handler returned it.
C9_CompanyInfoCompleteWhenLocated ==
  /\ Returned("company_info") =>
       \E info \in {parts["company_info"].result} :
          IF NoSheetFor("company_info") THEN info = <<>>
          ELSE /\ DOMAIN info = CompanyKeys
               /\ \E company_name \in {_extract_company_name_from_headers(sheets)} :
                     info["company_name"]
                       = (IF company_name # <<>> THEN company_name ELSE UNKNOWN_COMPANY)
               /\ \A m \in 1..Len(COMPANY_FIELDS) :
                     FieldWithoutRow(m) => info[COMPANY_FIELDS[m].key] = 0
  /\ DocReady => returned["company_info"] = parts["company_info"].result

\* C9's disputed case: a document of a workbook without a company-data sheet
C9_Witness ==
  /\ DocReady
  /\ NoSheetFor("company_info")
  /\ returned["company_info"] = <<>>
  /\ \E role \in DataRoles : returned[role] # <<>>

\* load_workbook fails: the file is absent, not permitted or not readable as
\* a workbook, or the workbook has no sheets
LoadFails == file \in {"absent", "denied", "unreadable"} \/ workbook = <<>>

\* C10: when load_workbook fails, extract_all_data runs no role extraction
\* and returns {}, and extract_financial_data returns False;
\* extract_financial_data returns True exactly when extract_all_data returned
\* a non-empty document.
C10_LoadFailureGivesEmptyDocument ==
  /\ (LoadFails /\ pc # "load") =>
       /\ pc \in {"returned", "done"}
       /\ parts = <<>>
       /\ extracted_data = <<>>
       /\ returned = <<>>
  /\ pc = "done" =>
       /\ result \in BOOLEAN
       /\ result <=> (returned # <<>>)
       /\ LoadFails => ~result
       /\ analyzer_data = returned

\* C10's case: extract_financial_data returned after a failed load
C10_Witness ==
  /\ pc = "done"
  /\ LoadFails
  /\ returned = <<>>
  /\ result = FALSE

(***************************************************************************)
(* The claims on the functions, under SpecCalls                            *)
(***************************************************************************)
\* the function has returned
Called(name) == op = name /\ ret # <<>>

\* the sheets whose lower-cased name contains one of the keywords
SheetsNamedBy(sheet_list, keywords) ==
  {p \in 1..Len(sheet_list) :
     \E k \in 1..Len(keywords) : IsSubstr(keywords[k], Lower(sheet_list[p].name))}

\* C13: _find_sheet_by_name returns the first sheet, in the workbook's order,
\* whose lower-cased name contains at least one of the keywords, whatever the
\* place of that keyword in the list, and None when no sheet name contains a
\* keyword.
C13_FirstMatchingSheetInSheetOrder ==
  Called("_find_sheet_by_name") =>
    \E named \in {SheetsNamedBy(args[1], args[2])} :
       IF named = {} THEN ret[1] = NoSheet
       ELSE ret[1] \in named /\ \A p \in named : ret[1] <= p

\* C13's case: the first sheet is named by the last keyword only, the second
\* sheet by the first keyword, and the first sheet is returned
C13_Witness ==
  /\ Called("_find_sheet_by_name")
  /\ Len(args[1]) = 2
  /\ Len(args[2]) >= 2
  /\ IsSubstr(args[2][1], Lower(args[1][2].name))
  /\ ~IsSubstr(args[2][1], Lower(args[1][1].name))
  /\ IsSubstr(args[2][Len(args[2])], Lower(args[1][1].name))
  /\ ret[1] = 1

\* the cells of a row the quarterly locator counts
QuarterCount(row) == Cardinality({c \in 1..Len(row) : QuarterOf(row[c], 0) # <<>>})

\* C14: find_year_row returns the first row from the top with at least 3
\* cells counting as years, and None when no row has 3; the quarterly locator
\* selects the first row with at least 4 cells counting as quarters, and the
\* quarterly result is empty when no row has 4; every row above the selected
\* one is below the threshold.
C14_LocatorReturnsTopmostRow ==
  /\ Called("find_year_row") =>
       \E rows \in {args[1]}, r \in {ret[1]} :
          IF r = NoRow THEN \A j \in 1..Len(rows) : YearCount(rows[j]) < 3
          ELSE /\ r \in 1..Len(rows)
               /\ YearCount(rows[r]) >= 3
               /\ \A j \in 1..(r - 1) : YearCount(rows[j]) < 3
  /\ Called("find_quarter_row") =>
       \E rows \in {args[1]}, r \in {ret[1].row} :
          IF r = NoRow
          THEN /\ \A j \in 1..Len(rows) : QuarterCount(rows[j]) < 4
               /\ ret[1].result = <<>>
          ELSE /\ r \in 1..Len(rows)
               /\ QuarterCount(rows[r]) >= 4
               /\ \A j \in 1..(r - 1) : QuarterCount(rows[j]) < 4
               /\ ret[1].result # <<>>

\* C14's case: two rows meet the threshold, and the upper one is returned
C14_Witness ==
  /\ Called("find_year_row")
  /\ Len(args[1]) = 2
  /\ YearCount(args[1][1]) = 3
  /\ YearCount(args[1][2]) = 4
  /\ ret[1] = 1

\* how often y is in the sequence
Occurrences(s, y) == Cardinality({p \in 1..Len(s) : s[p] = y})

\* C16: extract_years returns the axis in non-decreasing order whatever the
\* order of the header cells, with one entry per accepted header cell:
\* duplicate years are kept and a cell without an accepted year adds nothing.
C16_YearsSortedOnePerAcceptedCell ==
  Called("extract_years") =>
    \E year_row \in {args[1]}, years \in {ret[1]} :
       /\ \A p \in 1..(Len(years) - 1) : years[p] <= years[p + 1]
       /\ Len(years) = Cardinality({c \in 1..Len(year_row) : AcceptedYearCell(year_row[c])})
       /\ \A y \in 1990..2031 :
             Occurrences(years, y)
               = Cardinality({c \in 1..Len(year_row) :
                                AcceptedYearCell(year_row[c]) /\ CellYear(year_row[c]) = y})

\* C16's case: a header in descending order with the year 2021 twice and a
\* cell that is no year
C16_Witness ==
  /\ Called("extract_years")
  /\ args[1] = <<PyInt(2023), Str(<<"M","a","r"," ","2","0","2","1">>), PyInt(2021)>>
  /\ ret[1] = <<2021, 2021, 2023>>

\* the years calculate_cagr considers: all of them, or the last `years`
ConsideredYears(values, years) ==
  IF years = 0 THEN DOMAIN values
  ELSE {y \in DOMAIN values : Cardinality({z \in DOMAIN values : z > y}) < years}

\* C18: calculate_cagr returns 0.0 when fewer than two points are considered,
\* when the value at the earliest or at the latest considered year is <= 0,
\* and when the span between the two years is <= 0.
C18_CagrZeroOnDegenerateSeries ==
  Called("calculate_cagr") =>
    \E values \in {args[1]}, considered \in {ConsideredYears(args[1], args[2])} :
       ( \/ Cardinality(considered) < 2
         \/ \E first \in considered, last \in considered :
               /\ \A y \in considered : first <= y /\ y <= last
               /\ (values[first] <= 0 \/ values[last] <= 0 \/ last - first <= 0) )
         => ret[1] = ZeroRate

\* C18's case: three points, the last two considered, the earlier of them
\* negative and the later positive
C18_Witness ==
  /\ Called("calculate_cagr")
  /\ DOMAIN args[1] = {2020, 2021, 2023}
  /\ args[2] = 2
  /\ args[1][2020] > 0
  /\ args[1][2021] < 0
  /\ args[1][2023] > 0
  /\ ret[1] = ZeroRate

\* the cleaned first-column text of a row; the row's first cell is present
CleanedText(row) == Strip(Lower(StrOf(row[1])))

HasLabel(row) == Len(row) > 0 /\ NotNa(row[1])

\* the tiers of the label matcher on two cleaned texts
ExactTier(cell_str, label) == cell_str = label

SubstringTier(cell_str, label) == IsSubstr(label, cell_str) \/ IsSubstr(cell_str, label)

TokenTier(cell_str, label) ==
  \E label_words \in {KeyWords(label)}, cell_words \in {KeyWords(cell_str)} :
     /\ label_words # {}
     /\ cell_words # {}
     /\ Cardinality(label_words \cap cell_words)
          >= (IF Cardinality(label_words) < 2 THEN Cardinality(label_words) ELSE 2)

AnyTier(cell_str, label) ==
  ExactTier(cell_str, label) \/ SubstringTier(cell_str, label) \/ TokenTier(cell_str, label)

\* C19 as claimed, on sheets without an empty first-column text: when some
\* row's cleaned text equals the label, the matcher returns a row whose
\* cleaned text equals the label, also when a row above it matches by
\* containment or token overlap only; and when no row is equal but some row
\* matches by containment, it returns a row matching by containment.
C19_TiersArePriorityAcrossSheet ==
  Called("find_row_by_label") =>
    \E rows \in {args[1]}, label \in {Strip(Lower(args[2]))}, r \in {ret[1]} :
       (\A j \in 1..Len(rows) : HasLabel(rows[j]) => CleanedText(rows[j]) # <<>>) =>
         \E exact \in {{j \in 1..Len(rows) :
                          HasLabel(rows[j]) /\ ExactTier(CleanedText(rows[j]), label)}},
            contained \in {{j \in 1..Len(rows) :
                              HasLabel(rows[j]) /\ SubstringTier(CleanedText(rows[j]), label)}} :
            /\ exact # {} => r \in exact
            /\ (exact = {} /\ contained # {}) => r \in contained

\* C20: find_row_by_label compares the lower-cased, trimmed texts, scans the
\* rows from the top and returns the first row whose first-column text
\* matches the label by exact equality, containment in either direction or
\* token overlap; rows whose first cell is missing are skipped; it returns
\* None when no row matches.
C20_FirstRowMatchingByAnyTier ==
  Called("find_row_by_label") =>
    \E rows \in {args[1]}, label \in {Strip(Lower(args[2]))}, r \in {ret[1]} :
       \E matching \in {{j \in 1..Len(rows) :
                           HasLabel(rows[j]) /\ AnyTier(CleanedText(rows[j]), label)}} :
          IF matching = {} THEN r = NoRow
          ELSE r \in matching /\ \A j \in matching : r <= j

\* C20's case: the first row has no first cell, the second matches the label
\* by token overlap only, in other case and with spaces around
C20_Witness ==
  /\ Called("find_row_by_label")
  /\ Len(args[1]) = 2
  /\ ~HasLabel(args[1][1])
  /\ args[1][2][1] = Str(<<"N","e","t","-","P","r","o","f","i","t">>)
  /\ args[2] = <<" ","N","e","t"," ","P","r","o","f","i","t">>
  /\ ~SubstringTier(CleanedText(args[1][2]), Strip(Lower(args[2])))
  /\ ret[1] = 2

(***************************************************************************)
(* The claims on the handlers' row lookup and on state, under Spec and     *)
(* SpecRepeat                                                              *)
(***************************************************************************)
\* the rows, outside the excluded ones, matching a term of the metric
UnusedMatchingRows(rows, terms, excluded) ==
  {j \in 1..Len(rows) :
     /\ j \notin excluded
     /\ HasLabel(rows[j])
     /\ \E t \in 1..Len(terms) : AnyTier(CleanedText(rows[j]), Strip(Lower(terms[t])))}

\* C15 as claimed, on sheets without an empty first-column text: in the
\* balance sheet and cash flow passes a metric for which some row outside
\* used_rows matches one of its synonyms is assigned a row outside used_rows,
\* also when the topmost row matching the synonym is in used_rows; it gets
\* the all-zero series only if no unused row matches any of its synonyms.
C15_LookupSkipsExcludedRows ==
  \A role \in {"balance_sheet", "cash_flow"} :
     Located(role) =>
       \E rows \in {RoleRows(role)} :
          (\A j \in 1..Len(rows) : HasLabel(rows[j]) => CleanedText(rows[j]) # <<>>) =>
            \A m \in 1..Len(RoleMetrics(role)) :
               \E row_idx \in {parts[role].matched[RoleMetrics(role)[m].key]} :
                  UnusedMatchingRows(rows, RoleMetrics(role)[m].terms, UsedBefore(role, m)) # {}
                    => row_idx # NoRow /\ row_idx \notin UsedBefore(role, m)

\* the document without extraction_timestamp
WithoutTimestamp(doc) ==
  IF doc = <<>> THEN doc ELSE [key \in DOMAIN doc \ {"extraction_timestamp"} |-> doc[key]]

\* the rows the first m metrics of a role were assigned
OwnRows(role, m) ==
  {parts[role].matched[RoleMetrics(role)[k].key] : k \in 1..m} \ {NoRow}

\* C17: once load_workbook succeeded the sheets stay as read while the
\* handlers run and after; the used-row set of the balance sheet pass and of
\* the cash flow pass holds the rows of its own metrics only; and a second
\* extraction of the same file gives the same document, the timestamp aside.
C17_ExtractionReadOnlyAndStateless ==
  /\ (pc \notin {"load"} /\ LoadSucceeds) => sheets = workbook
  /\ \A role \in {"balance_sheet", "cash_flow"} :
        Located(role) =>
          \A m \in 1..Len(RoleMetrics(role)) : parts[role].used[m] = OwnRows(role, m)
  /\ (pc = "done" /\ previous # <<>>) =>
        /\ WithoutTimestamp(analyzer_data) = WithoutTimestamp(previous[1])
        /\ analyzer_data = returned

\* C17's case: a second extraction ended at another time than the first, on
\* a workbook whose balance sheet pass and cash flow pass both used a row
C17_Witness ==
  /\ pc = "done"
  /\ previous # <<>>
  /\ analyzer_data # <<>>
  /\ analyzer_data["extraction_timestamp"] # previous[1]["extraction_timestamp"]
  /\ parts["balance_sheet"].result # <<>>
  /\ parts["cash_flow"].result # <<>>
  /\ parts["balance_sheet"].used[Len(BS_METRICS)] # {}
  /\ parts["cash_flow"].used[Len(CF_METRICS)] # {}

(***************************************************************************)
(* The analysis of one workbook and the batch                              *)
(***************************************************************************)
\* the five steps of run_complete_analysis
AnalysisSteps ==
  <<"validate_input", "extract_financial_data", "calculate_financial_metrics",
    "compile_final_analysis", "save_analysis">>

\* the steps run for a workbook, with what each returned
StepsOf(workbook_name) == SelectSeq(steps, LAMBDA entry : entry[1] = workbook_name)

\* the step returned a true value
Succeeded(entry) == entry[3] \in {"True", "path"}

\* analyze_stock_workbook returned for the workbook the loop is at
AnalysisReturned == bpc = "run_analysis_on_file"

\* C11: the steps run for a workbook are a prefix of the five steps in their
\* order, each once; every step before the last one run succeeded; when one
\* of the first four fails no report file of the workbook exists and the
\* analysis returns None, as it does when saving fails; a path is returned
\* only when all five steps succeeded.
C11_StepsInOrderStopAtFirstFailure ==
  \A workbook_name \in 1..MaxFiles :
    The({/\ Len(run) <= Len(AnalysisSteps)
         /\ \A e \in 1..Len(run) : run[e][2] = AnalysisSteps[e]
         /\ \A e \in 1..Len(run) : e < Len(run) => Succeeded(run[e])
         /\ (run # <<>> /\ ~Succeeded(run[Len(run)]) /\ Len(run) < Len(AnalysisSteps)) =>
               \A report \in saved : report.file # workbook_name
         /\ (AnalysisReturned /\ excel_file = workbook_name) =>
               /\ run # <<>>
               /\ ~Succeeded(run[Len(run)]) => json_path = <<NoPath>>
               /\ json_path # <<NoPath>> =>
                    /\ Len(run) = Len(AnalysisSteps)
                    /\ \A e \in 1..Len(run) : Succeeded(run[e])
                    /\ [file |-> workbook_name, complete |-> TRUE] \in saved :
         run \in {StepsOf(workbook_name)}})

\* C11's case: after a workbook that went through all five steps, the
\* analysis of the next one stopped with None at the third step
C11_Witness ==
  /\ AnalysisReturned
  /\ file_no = 2
  /\ Len(successful_analyses) = 1
  /\ Len(StepsOf(excel_files[1])) = 5
  /\ Len(StepsOf(excel_file)) = 3
  /\ StepsOf(excel_file)[3] = <<excel_file, "calculate_financial_metrics", "False">>
  /\ json_path = <<NoPath>>

\* the workbooks handed to analyze_stock_workbook, in the order handed
Started ==
  The({[e \in 1..Len(first) |-> first[e][1]] :
       first \in {SelectSeq(steps, LAMBDA entry : entry[2] = "validate_input")}})

\* how many records of both lists name the workbook
TimesRecorded(workbook_name) ==
  Cardinality({e \in 1..Len(successful_analyses) :
                 successful_analyses[e].excel_file = workbook_name})
    + Cardinality({e \in 1..Len(failed_analyses) :
                     failed_analyses[e].excel_file = workbook_name})

\* run_batch_analysis returned
BatchDone == bpc = "done"

\* the loop over the workbooks: they are the directory's workbooks without
\* the lock files, sorted; they are started one after the other in that
\* order, each once; after a failed analysis the workbook is in
\* failed_analyses and the loop goes on; at the end each is recorded once
BatchLoopRecordsEachOnce ==
  /\ bpc # "run_batch_analysis" =>
       /\ excel_files = get_excel_files(directory)
       /\ \A e \in 1..Len(excel_files) : e > 1 => excel_files[e - 1] < excel_files[e]
       /\ Started = SubSeq(excel_files, 1,
                           IF bpc = "validate_input" THEN file_no - 1 ELSE file_no)
  /\ bpc = "log_analysis_progress" =>
       /\ json_path = <<NoPath>> => failed_analyses[Len(failed_analyses)].excel_file = excel_file
       /\ json_path # <<NoPath>> =>
            successful_analyses[Len(successful_analyses)].excel_file = excel_file
       /\ \A e \in 1..file_no : TimesRecorded(excel_files[e]) = 1
  /\ BatchDone =>
       /\ Started = excel_files
       /\ \A e \in 1..Len(excel_files) : TimesRecorded(excel_files[e]) = 1
       /\ results.total_files = Len(excel_files)
       /\ results.successful_analyses = Len(successful_analyses)
       /\ results.failed_analyses = Len(failed_analyses)
       /\ results.successful_analyses + results.failed_analyses = results.total_files

\* C12: the batch loop records each workbook once, in sorted order, going on
\* after a failure, and the result's reports_generated is a count that is at
\* most the count of successful analyses.
C12_BatchRecordsEveryWorkbookOnce ==
  /\ BatchLoopRecordsEachOnce
  /\ BatchDone =>
       /\ results.reports_generated.type = "int"
       /\ results.reports_generated.value <= results.successful_analyses

(***************************************************************************)
(* The synonym order, the token tier and the year window                   *)
(***************************************************************************)
\* the places of the synonyms of metric m whose row the loop accepts: a row
\* is found and (where used rows are tracked) no earlier metric took it
AcceptedTerms(role, m) ==
  {t \in 1..Len(RoleMetrics(role)[m].terms) :
     \E row_idx \in {find_row_by_label(RoleRows(role), RoleMetrics(role)[m].terms[t])} :
        row_idx # NoRow /\ row_idx \notin UsedBefore(role, m)}

\* the row of the earliest accepted synonym of metric m; NoRow without one
EarliestTermRow(role, m) ==
  The({IF accepted = {} THEN NoRow
       ELSE find_row_by_label(RoleRows(role),
                              RoleMetrics(role)[m].terms[CHOOSE t \in accepted :
                                                           \A u \in accepted : t <= u]) :
       accepted \in {AcceptedTerms(role, m)}})

\* C21: every metric of a located annual role is given the row that the
\* earliest synonym of the table's order yields (in the balance sheet and
\* cash flow passes: the earliest whose row is not used yet) and its values
\* are that row's values, whatever rows the later synonyms would find.
C21_EarliestSynonymDecides ==
  \A role \in AnnualRoles :
     Located(role) =>
       \A m \in 1..Len(RoleMetrics(role)) :
          \E key \in {RoleMetrics(role)[m].key}, row_idx \in {EarliestTermRow(role, m)} :
             /\ parts[role].matched[key] = row_idx
             /\ (row_idx # NoRow /\ ~Substitutes(role, key)) =>
                   parts[role].result[key]
                     = extract_numeric_values(RoleRows(role)[row_idx],
                                              parts[role].result["years"])

\* C21's case: the first synonym of total_equity finds a row by its words
\* while a later synonym is the exact text of another row
C21_Witness ==
  /\ Located("balance_sheet")
  /\ \E rows \in {RoleRows("balance_sheet")} :
        \E first \in {find_row_by_label(rows, BS_METRICS[1].terms[1])} :
           /\ first # NoRow
           /\ parts["balance_sheet"].matched["total_equity"] = first
           /\ \E t \in 2..Len(BS_METRICS[1].terms) :
                 \E later \in 1..Len(rows) :
                    /\ later # first
                    /\ rows[later][1].k = "str"
                    /\ Strip(Lower(rows[later][1].s)) = BS_METRICS[1].terms[t]
                    /\ Strip(Lower(rows[first][1].s)) # BS_METRICS[1].terms[1]

\* the stopwords as the claim lists them
Stopwords ==
  { <<"f","r","o","m">>, <<"t","o">>, <<"t","h","e">>, <<"a","n","d">>, <<"o","r">>, <<"o","f">>, <<"i","n">>, <<"f","o","r">>, <<"w","i","t","h">>, <<"t","o","t","a","l">> }

\* a character that ends a token: whitespace or a hyphen
IsTokenBreak(c) == IsSpaceChar(c) \/ c = "-"

\* the tokens of a text, split on whitespace and hyphens, without stopwords
SignificantTokens(text) ==
  { SubSeq(text, span[1], span[2]) :
      span \in {span \in (1..Len(text)) \X (1..Len(text)) :
                  /\ span[1] <= span[2]
                  /\ \A i \in span[1]..span[2] : ~IsTokenBreak(text[i])
                  /\ (span[1] = 1 \/ IsTokenBreak(text[span[1] - 1]))
                  /\ (span[2] = Len(text) \/ IsTokenBreak(text[span[2] + 1]))} }
  \ Stopwords

\* the token-overlap test as C22 puts it
TokenOverlap(cell_str, label) ==
  \E label_tokens \in {SignificantTokens(label)}, cell_tokens \in {SignificantTokens(cell_str)} :
     /\ label_tokens # {}
     /\ cell_tokens # {}
     /\ IF Cardinality(label_tokens) = 1
        THEN label_tokens \subseteq cell_tokens
        ELSE Cardinality(label_tokens \cap cell_tokens) >= 2

\* C22: a row of find_row_by_label that no row above it matched and that
\* matches the label neither by equality nor by containment is the row
\* returned exactly when, stopwords removed, both texts have tokens left and
\* share the label's only token, or two tokens of a longer label; the
\* stopwords are the ten the claim lists.
C22_TokenTierNeedsTwoSharedTokens ==
  /\ FILLER_SET = Stopwords
  /\ Called("find_row_by_label") =>
       \E rows \in {args[1]}, label \in {Strip(Lower(args[2]))}, r \in {ret[1]} :
          \A j \in 1..Len(rows) :
             (/\ HasLabel(rows[j])
              /\ r = NoRow \/ r >= j
              /\ ~ExactTier(CleanedText(rows[j]), label)
              /\ ~SubstringTier(CleanedText(rows[j]), label))
               => (r = j <=> TokenOverlap(CleanedText(rows[j]), label))

\* C22's case: the first row shares one of the label's two tokens and is
\* passed over, the second shares both across a hyphen and is returned
C22_Witness ==
  /\ Called("find_row_by_label")
  /\ args[2] = <<" ","N","e","t"," ","P","r","o","f","i","t">>
  /\ Len(args[1]) = 2
  /\ args[1][1][1] = Str(<<" ","N","E","T"," ","S","A","L","E","S"," ">>)
  /\ args[1][2][1] = Str(<<"N","e","t","-","P","r","o","f","i","t">>)
  /\ SignificantTokens(CleanedText(args[1][1])) \cap SignificantTokens(Strip(Lower(args[2])))
        = {<<"n","e","t">>}
  /\ ~SubstringTier(CleanedText(args[1][2]), Strip(Lower(args[2])))
  /\ ret[1] = 2

\* a label of one token after the stopword is removed finds a row by it
C22_OneTokenLabel ==
  /\ Called("find_row_by_label")
  /\ args[2] = <<"t","o","t","a","l"," ","p","r","o","f","i","t">>
  /\ Len(args[1]) = 1
  /\ args[1][1][1] = Str(<<"N","e","t","-","P","r","o","f","i","t">>)
  /\ ~SubstringTier(CleanedText(args[1][1]), Strip(Lower(args[2])))
  /\ ret[1] = 1

\* C23 as claimed: the header row of a located annual role has at least 3
\* cells whose year lies in [1990, 2030] (a row whose year-bearing cells are
\* 2031, 2032 and 2033 is not taken), and the role's axis has at least 3
\* years.
C23_HeaderYearsInWindow ==
  \A role \in AnnualRoles :
     Located(role) =>
       /\ Cardinality({c \in 1..Len(YearRow(role)) : AcceptedYearCell(YearRow(role)[c])}) >= 3
       /\ Len(parts[role].result["years"]) >= 3

(***************************************************************************)
(* The derived series: total_assets and free_cash_flow                     *)
(***************************************************************************)
\* the series the loop of the balance sheet pass extracted for a metric
ExtractedSeries(key) ==
  The({IF row_idx = NoRow THEN ZeroSeries(parts["balance_sheet"].result["years"])
       ELSE extract_numeric_values(RoleRows("balance_sheet")[row_idx],
                                   parts["balance_sheet"].result["years"]) :
       row_idx \in {parts["balance_sheet"].matched[key]}})

\* the two sums of a year: current + fixed assets, debt + equity
AssetsSum(year) ==
  ExtractedSeries("current_assets")[year] + ExtractedSeries("fixed_assets")[year]

FundingSum(year) ==
  ExtractedSeries("total_debt")[year] + ExtractedSeries("total_equity")[year]

LargerSum(year) ==
  The({IF b > a THEN b ELSE a : a \in {AssetsSum(year)}, b \in {FundingSum(year)}})

\* the extracted total_assets series holds no value other than zero
TotalAssetsAllZero ==
  \A y \in DOMAIN ExtractedSeries("total_assets") : ExtractedSeries("total_assets")[y] = 0

BalanceYears == Range(parts["balance_sheet"].result["years"])

PositiveLargerSum(year) ==
  The({IF larger > 0 THEN larger ELSE 0 : larger \in {LargerSum(year)}})

C25_FreeCashFlowSubtractsCapexMagnitude ==
  Located("cash_flow") =>
    \E extracted \in {parts["cash_flow"].result} :
       /\ "free_cash_flow" \in DOMAIN extracted
       /\ DOMAIN extracted["free_cash_flow"] = Range(extracted["years"])
       /\ \A y \in Range(extracted["years"]) :
             extracted["free_cash_flow"][y]
               = IF extracted["capex"][y] < 0
                 THEN extracted["operating_cash_flow"][y] + extracted["capex"][y]
                 ELSE extracted["operating_cash_flow"][y] - extracted["capex"][y]

\* C25's case: capex is below zero in one year and above zero in another
C25_Witness ==
  /\ Located("cash_flow")
  /\ \E y \in Range(parts["cash_flow"].result["years"]) :
        /\ parts["cash_flow"].result["capex"][y] < 0
        /\ parts["cash_flow"].result["operating_cash_flow"][y] # 0
  /\ \E y \in Range(parts["cash_flow"].result["years"]) :
        /\ parts["cash_flow"].result["capex"][y] > 0
        /\ parts["cash_flow"].result["operating_cash_flow"][y] # 0

\* the cash flow pass before free_cash_flow is added: each series as the
\* loop extracted it
CashFlowExtracted ==
  The({[key \in {"years"} \cup {CF_METRICS[m].key : m \in 1..Len(CF_METRICS)} |->
          IF key = "years" THEN years
          ELSE IF parts["cash_flow"].matched[key] = NoRow THEN ZeroSeries(years)
          ELSE extract_numeric_values(RoleRows("cash_flow")[parts["cash_flow"].matched[key]],
                                      years)] :
       years \in {parts["cash_flow"].result["years"]}})

\* the validation found operating_cash_flow and capex identical
CollisionLogged == parts["cash_flow"].log = "error"

\* C26: the validation of a located cash flow role logs an error exactly
\* when operating_cash_flow and capex are identical, and then as otherwise
\* the handler returns years, the three extracted series and free_cash_flow:
\* the mapping the extraction built, nothing removed or altered.
C26_CollisionCheckOnlyLogs ==
  (Returned("cash_flow") /\ ~NoSheetFor("cash_flow") /\ ~NoHeaderFor("cash_flow")) =>
    /\ Located("cash_flow")
    /\ CollisionLogged <=> CashFlowExtracted["operating_cash_flow"] = CashFlowExtracted["capex"]
    /\ DOMAIN parts["cash_flow"].result
         = {"years", "operating_cash_flow", "capex", "financing_cash_flow", "free_cash_flow"}
    /\ \A key \in DOMAIN CashFlowExtracted :
          parts["cash_flow"].result[key] = CashFlowExtracted[key]
    /\ parts["cash_flow"].result = WithFreeCashFlow(CashFlowExtracted)

\* C26's case: both series were extracted from rows, not defaulted, and are
\* identical
C26_Witness ==
  /\ Located("cash_flow")
  /\ CollisionLogged
  /\ parts["cash_flow"].result["years"] # <<>>
  /\ parts["cash_flow"].matched["operating_cash_flow"] # NoRow
  /\ parts["cash_flow"].matched["capex"] # NoRow

(***************************************************************************)
(* The company fields, the columns of the values and the sheets selected  *)
(***************************************************************************)
\* the cells of columns 1 to 4 of a row (cells 2 to 5 counted from 1) that
\* are present and parse as a float
ParseableCells(row) ==
  {c \in 2..5 : c <= Len(row) /\ row[c].k # "nan" /\ FloatParses(row[c])}

\* the places of the field's synonyms whose row has such a cell
YieldingTerms(m) ==
  {t \in 1..Len(COMPANY_FIELDS[m].terms) :
     \E row_idx \in {find_row_by_label(RoleRows("company_info"), COMPANY_FIELDS[m].terms[t])} :
        row_idx # NoRow /\ ParseableCells(RoleRows("company_info")[row_idx]) # {}}

\* the row of the field's earliest yielding synonym
FieldRow(m) ==
  RoleRows("company_info")[
    find_row_by_label(RoleRows("company_info"),
                      COMPANY_FIELDS[m].terms[CHOOSE t \in YieldingTerms(m) :
                                                \A u \in YieldingTerms(m) : t <= u])]

\* the company-data handler returned a record
CompanyLocated == Returned("company_info") /\ parts["company_info"].result # <<>>

\* C27: each numeric company field is the float of the first present,
\* parseable cell among columns 1 to 4 of the row found for the earliest
\* synonym that has such a cell, and 0.0 when no synonym has one; cells
\* from column 5 on, missing cells and unparseable cells never give it.
C27_FieldFromFirstParseableCell ==
  CompanyLocated =>
    \A m \in 1..Len(COMPANY_FIELDS) :
       parts["company_info"].result[COMPANY_FIELDS[m].key]
         = IF YieldingTerms(m) = {} THEN 0
           ELSE The({FloatOf(row[CHOOSE c \in ParseableCells(row) :
                                   \A d \in ParseableCells(row) : c <= d]) :
                     row \in {FieldRow(m)}})

\* C27's case: market_cap skips a missing cell and an unparseable text and
\* takes the text ' 1200 ' of column 3, while face_value stays 0.0 because
\* its row has its only number in column 5
C27_Witness ==
  /\ CompanyLocated
  /\ \E rows \in {RoleRows("company_info")} :
        /\ \E r \in 1..Len(rows) :
              /\ Len(rows[r]) >= 5
              /\ rows[r][2].k = "nan"
              /\ rows[r][3].k = "str" /\ ~FloatParses(rows[r][3])
              /\ rows[r][4].k = "str" /\ FloatOf(rows[r][4]) = 1200
              /\ find_row_by_label(rows, COMPANY_FIELDS[2].terms[1]) = r
        /\ \E r \in 1..Len(rows) :
              /\ Len(rows[r]) = 6
              /\ \A c \in 2..5 : rows[r][c].k = "nan"
              /\ rows[r][6].k = "int"
              /\ find_row_by_label(rows, COMPANY_FIELDS[3].terms[1]) = r
  /\ parts["company_info"].result["market_cap"] = 1200
  /\ parts["company_info"].result["face_value"] = 0

\* C28 as claimed: under an axis of distinct years, for every metric of a
\* located annual role that has a row, the value stored under the year of a
\* header cell is the number in the same column of the metric's row (0.0
\* when that cell is not a number), whatever the order and the places of
\* the years in the header row.
C28_ValuesUnderTheirYearsColumn ==
  \A role \in AnnualRoles :
     Located(role) =>
       \E rows \in {RoleRows(role)}, header \in {YearRow(role)} :
          DistinctYears(parts[role].result["years"]) =>
            \A key \in DOMAIN parts[role].matched :
               \E row_idx \in {parts[role].matched[key]} :
                  (row_idx # NoRow /\ ~Substitutes(role, key)) =>
                    \A c \in 1..Len(header) :
                       AcceptedYearCell(header[c]) =>
                         parts[role].result[key][CellYear(header[c])]
                           = StatedValue(rows[row_idx], c)

\* the sheet the role's handler selects in the loaded workbook
SelectedSheet(role) == _find_sheet_by_name(sheets, RoleKeywords(role))

\* C29 as claimed: when extract_all_data has built its document, no sheet of
\* the workbook was selected for two of the roles company data, profit and
\* loss, balance sheet, cash flow and quarterly.
C29_RolesSelectDistinctSheets ==
  DocReady =>
    \A r1, r2 \in DataRoles \cup {"company_info"} :
       (r1 # r2 /\ SelectedSheet(r1) # NoSheet) => SelectedSheet(r1) # SelectedSheet(r2)

(***************************************************************************)
(* The recommendation rules                                                *)
(***************************************************************************)
\* the recommendation and confidence the rule states for a total score
StatedRecommendation(total_score) ==
  IF total_score >= 70 THEN [recommendation |-> <<"S","T","R","O","N","G"," ","B","U","Y">>, confidence |-> <<"H","I","G","H">>]
  ELSE IF total_score >= 50 THEN [recommendation |-> <<"B","U","Y">>, confidence |-> <<"M","E","D","I","U","M">>]
  ELSE IF total_score >= 30 THEN [recommendation |-> <<"H","O","L","D">>, confidence |-> <<"M","E","D","I","U","M">>]
  ELSE [recommendation |-> <<"A","V","O","I","D">>, confidence |-> <<"H","I","G","H">>]

\* C30: for every total score calculate_investment_score can produce, its
\* recommendation and confidence are those get_recommendation_from_score
\* returns for the score and those of the stated rule (>= 70 STRONG BUY and
\* HIGH, >= 50 BUY and MEDIUM, >= 30 HOLD and MEDIUM, otherwise AVOID and
\* HIGH), and compile_final_analysis writes the same total score,
\* recommendation and confidence into the final analysis.
C30_RecommendationRulesAgree ==
  /\ Called("calculate_investment_score") =>
       \E configured \in {get_recommendation_from_score(ret[1].total_score)} :
          /\ ret[1].total_score = TotalScore(args[1])
          /\ ret[1].recommendation = configured.recommendation
          /\ ret[1].confidence_level = configured.confidence
          /\ configured = StatedRecommendation(ret[1].total_score)
  /\ (Called("compile_final_analysis") /\ args[1] # <<>>) =>
       /\ ret[1].total_score = args[1][1].total_score
       /\ ret[1].recommendation = args[1][1].recommendation
       /\ ret[1].confidence_level = args[1][1].confidence_level

\* C30's case: the category scores 20, 20, 15, 10 and 5 sum to the
\* threshold 70 and the calculator recommends STRONG BUY with HIGH confidence
C30_Witness ==
  /\ Called("calculate_investment_score")
  /\ args[1] = [growth_quality |-> 20, profitability |-> 20, financial_health |-> 15,
                cash_flow_quality |-> 10, valuation |-> 5]
  /\ ret[1].total_score = 70
  /\ ret[1].recommendation = <<"S","T","R","O","N","G"," ","B","U","Y">>
  /\ ret[1].confidence_level = <<"H","I","G","H">>
=============================================================================
